---- MODULE Spec2Model ----
(***************************************************************************)
(* A model of the funnel chart layout engine of funnel-chart-maker:        *)
(* annotateData, wrapTextToWidth, writeStepName, writeStats and drawChart  *)
(* of src/src/drawChart.ts (the ChartContext variant, lines 355-763), the  *)
(* ChartContext on its stateful canvas, parseData, validateData and the    *)
(* onChange handler of FunnelDataInput, and the funnel data App holds.     *)
(*                                                                         *)
(* Numbers are JavaScript numbers abstracted to exact rationals plus NaN   *)
(* and the two infinities (the sign of zero is not modelled; the rounding  *)
(* of doubles is modelled for the vertical layout, which is evaluated in   *)
(* binary64 as well).  Strings are sequences of one-character strings so   *)
(* that split, join and template formatting are computed, not assumed.     *)
(* The canvas measureText of the browser is modelled as an additive        *)
(* per-character width scaled by the font size.                            *)
(***************************************************************************)
EXTENDS Integers, Sequences, FiniteSets, TLC

(***************************************************************************)
(* Bounds of the model.                                                    *)
(***************************************************************************)
MaxLen == 3
MaxCount == 3
MaxText == 5

(***************************************************************************)
(* JavaScript numbers.                                                     *)
(***************************************************************************)
Abs(i) == IF i < 0 THEN 0 - i ELSE i

RECURSIVE GCD(_, _)
GCD(a, b) == IF b = 0 THEN a ELSE GCD(b, a % b)

NaN == [t |-> "nan", n |-> 0, d |-> 1]
Infinity == [t |-> "inf", n |-> 0, d |-> 1]
NegInfinity == [t |-> "ninf", n |-> 0, d |-> 1]
null == [t |-> "null", n |-> 0, d |-> 1]

\* the finite number n/d, d > 0, in lowest terms
Frac(n, d) ==
    LET g == GCD(Abs(n), d)
    IN  [t |-> "fin", n |-> n \div g, d |-> d \div g]

Num(i) == [t |-> "fin", n |-> i, d |-> 1]

IsFinite(a) == a.t = "fin"

Sgn(a) ==
    CASE a.t = "inf" -> 1
      [] a.t = "ninf" -> 0 - 1
      [] OTHER -> IF a.n > 0 THEN 1 ELSE IF a.n < 0 THEN 0 - 1 ELSE 0

Signed(s) == IF s > 0 THEN Infinity ELSE NegInfinity

JsNeg(a) ==
    CASE a.t = "fin" -> Frac(0 - a.n, a.d)
      [] a.t = "inf" -> NegInfinity
      [] a.t = "ninf" -> Infinity
      [] OTHER -> NaN

JsAdd(a, b) ==
    CASE a.t = "nan" \/ b.t = "nan" -> NaN
      [] a.t = "fin" /\ b.t = "fin" -> Frac(a.n * b.d + b.n * a.d, a.d * b.d)
      [] a.t = "fin" -> b
      [] b.t = "fin" -> a
      [] OTHER -> IF a.t = b.t THEN a ELSE NaN

JsSub(a, b) == JsAdd(a, JsNeg(b))

JsMul(a, b) ==
    CASE a.t = "nan" \/ b.t = "nan" -> NaN
      [] a.t = "fin" /\ b.t = "fin" -> Frac(a.n * b.n, a.d * b.d)
      [] OTHER -> IF Sgn(a) = 0 \/ Sgn(b) = 0 THEN NaN
                  ELSE Signed(Sgn(a) * Sgn(b))

JsDiv(a, b) ==
    CASE a.t = "nan" \/ b.t = "nan" -> NaN
      [] a.t = "fin" /\ b.t = "fin" ->
            IF b.n = 0
            THEN IF a.n = 0 THEN NaN ELSE Signed(a.n)
            ELSE Frac(Sgn(b) * a.n * b.d, a.d * Abs(b.n))
      [] a.t = "fin" -> Num(0)
      [] b.t = "fin" -> Signed(Sgn(a) * (IF Sgn(b) < 0 THEN 0 - 1 ELSE 1))
      [] OTHER -> NaN

\* a > b of JavaScript: false as soon as one side is NaN
JsGt(a, b) ==
    CASE a.t = "nan" \/ b.t = "nan" -> FALSE
      [] a.t = "fin" /\ b.t = "fin" -> a.n * b.d > b.n * a.d
      [] a.t = "inf" -> b.t # "inf"
      [] a.t = "ninf" -> FALSE
      [] OTHER -> b.t = "ninf"

JsLt(a, b) == JsGt(b, a)

JsGe(a, b) ==
    CASE a.t = "nan" \/ b.t = "nan" -> FALSE
      [] OTHER -> ~JsGt(b, a)

JsLe(a, b) == JsGe(b, a)

\* Math.max(a, b)
MathMax(a, b) ==
    CASE a.t = "nan" \/ b.t = "nan" -> NaN
      [] OTHER -> IF JsGt(b, a) THEN b ELSE a

\* Math.round(a): the nearest integer, halves rounded up
MathRound(a) ==
    IF a.t = "fin" THEN Num((2 * a.n + a.d) \div (2 * a.d)) ELSE a

(***************************************************************************)
(* The vertical layout in the arithmetic of the code.  A JavaScript number *)
(* is an IEEE 754 binary64: every operation returns the exact result       *)
(* rounded to 53 significant bits, ties to even.  A value is written       *)
(* m * 2^e with m a natural number given by its bits, most significant     *)
(* first (heights and lengths of a chart stay far from the subnormal and   *)
(* overflow ranges, which are left out).                                   *)
(***************************************************************************)
MantissaBits == 53

\* bits are added and multiplied ChunkBits at a time and quotients are
\* developed DigitBits at a time, in whole numbers
ChunkBits == 16
DigitBits == 8

RECURSIVE BitsOfNat(_)
BitsOfNat(n) == IF n = 0 THEN <<>> ELSE Append(BitsOfNat(n \div 2), n % 2)

RECURSIVE NatOfBits(_)
NatOfBits(a) ==
    IF a = <<>> THEN 0
    ELSE 2 * NatOfBits(SubSeq(a, 1, Len(a) - 1)) + a[Len(a)]

Zeros(k) == [j \in 1..k |-> 0]

\* a without its leading zeros
StripZeros(a) ==
    IF \A i \in 1..Len(a) : a[i] = 0 THEN <<>>
    ELSE SubSeq(a,
                CHOOSE i \in 1..Len(a) :
                    a[i] = 1 /\ \A j \in 1..(i - 1) : a[j] = 0,
                Len(a))

\* a with leading zeros up to n bits
PadBits(a, n) == Zeros(n - Len(a)) \o a

NumChunks(a) == (Len(a) + ChunkBits - 1) \div ChunkBits

\* chunk c of a as a number, chunk 0 being the least significant
Chunk(a, c) ==
    LET last == Len(a) - ChunkBits * c
        first == IF last > ChunkBits THEN last - ChunkBits + 1 ELSE 1
    IN  IF last < 1 THEN 0 ELSE NatOfBits(SubSeq(a, first, last))

RECURSIVE AddChunks(_, _, _, _)
AddChunks(a, b, c, carry) ==
    IF c >= NumChunks(a) /\ c >= NumChunks(b) THEN BitsOfNat(carry)
    ELSE LET t == Chunk(a, c) + Chunk(b, c) + carry
         IN  AddChunks(a, b, c + 1, t \div 2^ChunkBits) \o
             PadBits(BitsOfNat(t % 2^ChunkBits), ChunkBits)

BitsAdd(a, b) == StripZeros(AddChunks(a, b, 0, 0))

RECURSIVE MulChunks(_, _, _, _)
MulChunks(a, k, c, carry) ==
    IF c >= NumChunks(a) THEN BitsOfNat(carry)
    ELSE LET t == Chunk(a, c) * k + carry
         IN  MulChunks(a, k, c + 1, t \div 2^ChunkBits) \o
             PadBits(BitsOfNat(t % 2^ChunkBits), ChunkBits)

\* a times the small natural number k
BitsMul(a, k) == StripZeros(MulChunks(a, k, 0, 0))

\* a <= b, for bits without leading zeros
BitsLe(a, b) ==
    \/ Len(a) < Len(b)
    \/ /\ Len(a) = Len(b)
       /\ \/ a = b
          \/ \E i \in 1..Len(a) :
                /\ a[i] < b[i]
                /\ \A j \in 1..(i - 1) : a[j] = b[j]

\* the number m * 2^e
Dyadic(m, e) == [m |-> m, e |-> e]

DyadicOfNat(n) == Dyadic(BitsOfNat(n), 0)

\* the bits of x in units of 2^e, e <= x.e
Aligned(x, e) == StripZeros(x.m \o Zeros(x.e - e))

DyadicAdd(x, y) ==
    LET e == IF x.e < y.e THEN x.e ELSE y.e
    IN  Dyadic(BitsAdd(Aligned(x, e), Aligned(y, e)), e)

DyadicLe(x, y) ==
    LET e == IF x.e < y.e THEN x.e ELSE y.e
    IN  BitsLe(Aligned(x, e), Aligned(y, e))

DyadicEq(x, y) == DyadicLe(x, y) /\ DyadicLe(y, x)

\* round to nearest, ties to even: bits * 2^e, plus a nonzero remainder
\* below the last bit when sticky holds
RoundToNearestEven(bits, e, sticky) ==
    IF Len(bits) <= MantissaBits THEN Dyadic(bits, e)
    ELSE LET drop == Len(bits) - MantissaBits
             kept == SubSeq(bits, 1, MantissaBits)
             roundBit == bits[MantissaBits + 1]
             rest == sticky \/
                     \E j \in (MantissaBits + 2)..Len(bits) : bits[j] = 1
             up == roundBit = 1 /\ (rest \/ kept[MantissaBits] = 1)
             m == IF up THEN BitsAdd(kept, <<1>>) ELSE kept
         IN  IF Len(m) > MantissaBits
             THEN Dyadic(SubSeq(m, 1, MantissaBits), e + drop + 1)
             ELSE Dyadic(m, e + drop)

\* the quotient r / d continued digit by digit until one bit more than the
\* mantissa is known; frac counts the bits after the binary point
RECURSIVE DivideBits(_, _, _, _)
DivideBits(r, d, sig, frac) ==
    IF Len(StripZeros(sig)) > MantissaBits
    THEN [bits |-> StripZeros(sig), frac |-> frac, sticky |-> r # 0]
    ELSE LET t == r * 2^DigitBits
         IN  DivideBits(t % d, d,
                        sig \o PadBits(BitsOfNat(t \div d), DigitBits),
                        frac + DigitBits)

\* operator / on two positive whole numbers
DoubleDiv(n, d) ==
    LET q == DivideBits(n % d, d, BitsOfNat(n \div d), 0)
    IN  RoundToNearestEven(q.bits, 0 - q.frac, q.sticky)

\* operator * of a number and the exactly representable k * 2^sh
DoubleMul(x, k, sh) == RoundToNearestEven(BitsMul(x.m, k), x.e + sh, FALSE)

\* operator +
DoubleAdd(x, y) ==
    LET sum == DyadicAdd(x, y)
    IN  RoundToNearestEven(sum.m, sum.e, FALSE)

(***************************************************************************)
(* Strings.                                                                *)
(***************************************************************************)
SP == " "

RECURSIVE DigitsOf(_)
DigitsOf(i) ==
    LET digit == <<"0", "1", "2", "3", "4", "5", "6", "7", "8", "9">>
    IN  IF i < 10 THEN <<digit[i + 1]>>
        ELSE DigitsOf(i \div 10) \o <<digit[(i % 10) + 1]>>

\* `${x}` for a number x (integers and the non-finite values; a fraction
\* is printed as numerator "/" denominator, which no label of a chart
\* reaches because Math.round precedes every formatted proportion)
NumberToString(a) ==
    CASE a.t = "nan" -> <<"N", "a", "N">>
      [] a.t = "inf" -> <<"I", "n", "f", "i", "n", "i", "t", "y">>
      [] a.t = "ninf" -> <<"-", "I", "n", "f", "i", "n", "i", "t", "y">>
      [] OTHER ->
            (IF a.n < 0 THEN <<"-">> ELSE <<>>) \o DigitsOf(Abs(a.n)) \o
            (IF a.d = 1 THEN <<>> ELSE <<"/">> \o DigitsOf(a.d))

\* text.split(" ")
RECURSIVE Split(_)
Split(text) ==
    IF \A i \in 1..Len(text) : text[i] # SP THEN <<text>>
    ELSE LET k == CHOOSE i \in 1..Len(text) :
                      text[i] = SP /\ \A j \in 1..(i - 1) : text[j] # SP
         IN  <<SubSeq(text, 1, k - 1)>> \o Split(SubSeq(text, k + 1, Len(text)))

\* parts.join(sep)
RECURSIVE Join(_, _)
Join(parts, sep) ==
    IF Len(parts) = 0 THEN <<>>
    ELSE IF Len(parts) = 1 THEN parts[1]
    ELSE parts[1] \o sep \o Join(Tail(parts), sep)

(***************************************************************************)
(* Text metrics (ChartContext.measureTextWidth).                           *)
(***************************************************************************)
\* advance width of one character in half-em units of the bold font
CharUnits(c) == IF c = "M" THEN 2 ELSE 1

RECURSIVE SumUnits(_)
SumUnits(line) ==
    IF Len(line) = 0 THEN 0 ELSE CharUnits(Head(line)) + SumUnits(Tail(line))

\* ctx.measureText(line).width with the font set to `bold ${fontSize}px`
measureText(line, fontSize) == Frac(SumUnits(line) * fontSize, 2)

\* Math.max(...lines.map(measureText)): -Infinity for no line at all
RECURSIVE MaxWidthOf(_, _)
MaxWidthOf(lines, fontSize) ==
    IF Len(lines) = 0 THEN NegInfinity
    ELSE MathMax(measureText(Head(lines), fontSize),
                 MaxWidthOf(Tail(lines), fontSize))

\* measureTextWidth of one string
measureTextWidth(text, fontSize) == MaxWidthOf(<<text>>, fontSize)

\* measureTextWidth of an array of lines
measureLinesWidth(lines, fontSize) == MaxWidthOf(lines, fontSize)

textPadding == 4
betweenTextPadding == 24

measureHeightOfLines(numberOfLines, fontSize) ==
    numberOfLines * fontSize + (numberOfLines - 1) * textPadding

(***************************************************************************)
(* wrapTextToWidth.  The state of the forEach callback is the closure      *)
(* (lines, currentLine, hasHorizontalOverflow); currentLine === null is    *)
(* the flag isNull, so that null and the empty string stay distinct.       *)
(***************************************************************************)
WrapStart ==
    [lines |-> <<>>, currentLine |-> <<>>, isNull |-> TRUE,
     hasHorizontalOverflow |-> FALSE]

\* the earlier variant of the callback: currentLine starts as "" and is
\* pushed whenever the candidate line is too wide, also when it is empty
wrapWordPushesEmptyLine(st, word, fontSize, width) ==
    LET currentLineWithWord ==
            IF st.isNull THEN word ELSE st.currentLine \o <<SP>> \o word
        currentLineWidth == measureTextWidth(currentLineWithWord, fontSize)
    IN  IF JsGt(currentLineWidth, width)
        THEN [lines |-> Append(st.lines, st.currentLine),
              currentLine |-> word, isNull |-> FALSE,
              hasHorizontalOverflow |->
                  st.hasHorizontalOverflow \/
                  JsGt(measureTextWidth(word, fontSize), width)]
        ELSE [st EXCEPT !.currentLine = currentLineWithWord,
                        !.isNull = FALSE]

\* a callback that only notices a too wide word at the start of a line
wrapWordMissesOverflow(st, word, fontSize, width) ==
    LET currentLineWithWord ==
            IF st.isNull THEN word ELSE st.currentLine \o <<SP>> \o word
        currentLineWidth == measureTextWidth(currentLineWithWord, fontSize)
    IN  IF JsGt(currentLineWidth, width)
        THEN IF st.isNull
             THEN [st EXCEPT !.hasHorizontalOverflow = TRUE,
                             !.lines = Append(st.lines, word)]
             ELSE [st EXCEPT !.lines = Append(st.lines, st.currentLine),
                             !.currentLine = word]
        ELSE [st EXCEPT !.currentLine = currentLineWithWord,
                        !.isNull = FALSE]

\* a callback that breaks the line before every word but the first
wrapWordAlwaysBreaks(st, word, fontSize, width) ==
    IF st.isNull
    THEN IF JsGt(measureTextWidth(word, fontSize), width)
         THEN [st EXCEPT !.hasHorizontalOverflow = TRUE,
                         !.lines = Append(st.lines, word)]
         ELSE [st EXCEPT !.currentLine = word, !.isNull = FALSE]
    ELSE [st EXCEPT !.lines = Append(st.lines, st.currentLine),
                    !.currentLine = word,
                    !.hasHorizontalOverflow =
                        st.hasHorizontalOverflow \/
                        JsGt(measureTextWidth(word, fontSize), width)]

\* a callback that breaks the line after the word that made it too wide
wrapWordBreaksAfterTheWord(st, word, fontSize, width) ==
    LET currentLineWithWord ==
            IF st.isNull THEN word ELSE st.currentLine \o <<SP>> \o word
        currentLineWidth == measureTextWidth(currentLineWithWord, fontSize)
    IN  IF JsGt(currentLineWidth, width)
        THEN [st EXCEPT !.hasHorizontalOverflow =
                            st.hasHorizontalOverflow \/
                            JsGt(measureTextWidth(word, fontSize), width),
                        !.lines = Append(st.lines, currentLineWithWord),
                        !.currentLine = <<>>,
                        !.isNull = TRUE]
        ELSE [st EXCEPT !.currentLine = currentLineWithWord,
                        !.isNull = FALSE]

\* words.forEach((word) => ...) of wrapTextToWidth, one word
wrapWord(st, word, fontSize, width) ==
    LET currentLineWithWord ==
            IF st.isNull THEN word ELSE st.currentLine \o <<SP>> \o word
        currentLineWidth == measureTextWidth(currentLineWithWord, fontSize)
    IN  IF JsGt(currentLineWidth, width)
        THEN IF st.isNull
             THEN \* this word alone has pushed us over the width
                  [st EXCEPT !.hasHorizontalOverflow = TRUE,
                             !.lines = Append(st.lines, word)]
             ELSE [st EXCEPT !.hasHorizontalOverflow =
                                 st.hasHorizontalOverflow \/
                                 JsGt(measureTextWidth(word, fontSize), width),
                             !.lines = Append(st.lines, st.currentLine),
                             !.currentLine = word]
        ELSE [st EXCEPT !.currentLine = currentLineWithWord,
                        !.isNull = FALSE]

\* if (currentLine !== null) lines.push(currentLine); return {...}
wrapReturn(st) ==
    [lines |-> IF st.isNull THEN st.lines
               ELSE Append(st.lines, st.currentLine),
     hasHorizontalOverflow |-> st.hasHorizontalOverflow]

RECURSIVE WrapFold(_, _, _, _)
WrapFold(st, words, fontSize, width) ==
    IF Len(words) = 0 THEN st
    ELSE WrapFold(wrapWord(st, Head(words), fontSize, width),
                  Tail(words), fontSize, width)

wrapTextToWidth(text, fontSize, width) ==
    wrapReturn(WrapFold(WrapStart, Split(text), fontSize, width))

(***************************************************************************)
(* State.                                                                  *)
(***************************************************************************)
VARIABLES
    data,                 \* the DataPoint[] passed to drawChart
    chart,                \* { width, height } of the chart
    pc,                   \* position of the running function
    annotated,            \* the array data.map is building in annotateData
    firstStepCount,       \* closure variable of annotateData
    preceedingStepCount,  \* closure variable of annotateData
    index,                \* number of points the forEach of drawChart visited
    ops,                  \* the fillRect and fillText calls made on the canvas
    wrapText,             \* text argument of wrapTextToWidth
    wrapWidth,            \* width argument of wrapTextToWidth
    wrapPos,              \* number of words words.forEach has visited
    wrapSt,               \* lines, currentLine and hasHorizontalOverflow
    wrapOut,              \* the value wrapTextToWidth returned
    barSpacing,           \* const verticalBarSpacing of drawChart, a double
    barHeight,            \* const barHeight of drawChart, a double
    ctx,                  \* font, fillStyle, textAlign, textBaseline of _ctx
    rawJson,              \* the text of the textarea of FunnelDataInput
    funnelData,           \* state funnelData of App
    funnelDataError,      \* state funnelDataError of App
    result,               \* the value parseData or validateData returned
    topOfFunnelCount,     \* const topOfFunnelCount of the useMemo of App
    statsCall,            \* the arguments rect, text, spacing of writeStats
    inputValue,           \* state inputValue of the three NumberInputs
    twin                  \* ctx and ops of a second canvas given the same calls

vars ==
    <<data, chart, pc, annotated, firstStepCount, preceedingStepCount, index,
      ops, wrapText, wrapWidth, wrapPos, wrapSt, wrapOut, barSpacing,
      barHeight, ctx, rawJson, funnelData, funnelDataError, result,
      topOfFunnelCount, statsCall, inputValue, twin>>

drawVars ==
    <<data, chart, annotated, firstStepCount, preceedingStepCount, index, ops>>

wrapVars == <<wrapText, wrapWidth, wrapPos, wrapSt, wrapOut>>

layoutVars == <<barSpacing, barHeight>>

canvasVars == <<ctx>>

inputVars == <<rawJson, funnelData, funnelDataError, result>>

memoVars == <<topOfFunnelCount>>

statsVars == <<statsCall>>

numberVars == <<inputValue>>

twinVars == <<twin>>

Colour(name, t) == [name |-> name, t |-> t]

white == Colour("white", Num(0))
black == Colour("black", Num(0))

\* the font a font declaration selects
Font(weight, size, family) ==
    [weight |-> weight, size |-> size, family |-> family]

\* a canvas context as getContext("2d") returns it: font "10px sans-serif",
\* fillStyle "#000000", textAlign "start", textBaseline "alphabetic"
DefaultCanvas ==
    [font |-> Font("normal", 10, "sans-serif"), fillStyle |-> black,
     textAlign |-> "start", textBaseline |-> "alphabetic"]

\* a JSON value: null, a boolean, a number, a string, an array of values or
\* an object, the latter as a function from its property names
JsonNull == [type |-> "null"]
JsonBoolean(b) == [type |-> "boolean", value |-> b]
JsonNumber(n) == [type |-> "number", value |-> n]
JsonString(s) == [type |-> "string", value |-> s]
JsonArray(items) == [type |-> "array", items |-> items]
JsonObject(props) == [type |-> "object", props |-> props]

\* a text as JSON.parse sees it: either it is not JSON, or it is the JSON
\* of one value
JsonOf(value) == [isJson |-> TRUE, value |-> value]
NotJson == [isJson |-> FALSE, value |-> JsonNull]

\* the empty text
NoText == NotJson

\* the constants of the vertical layout before drawChart computes them
NoDouble == DyadicOfNat(0)

NoWrapResult == [lines |-> <<>>, hasHorizontalOverflow |-> FALSE]

\* writeStats has not been called
NoStatsCall ==
    [rect |-> [x |-> Num(0), y |-> Num(0), width |-> Num(0),
               height |-> Num(0)],
     text |-> <<>>,
     spacing |-> [inside |-> Num(0), outside |-> Num(0)]]

\* no NumberInput is mounted
NoInputValue == [width |-> <<>>, height |-> <<>>, gradientBase |-> <<>>]

\* no second canvas
NoTwin == [start |-> DefaultCanvas, ctx |-> DefaultCanvas, ops |-> <<>>]

\* font size of the step name and of the stats
nonCenterFontSize == 14
\* font size of the centered count label
centerFontSize == 16

(***************************************************************************)
(* wrapTextToWidth as a process: one step per word, then the return.       *)
(***************************************************************************)
Alphabet == {"a", "M", SP}

Texts == UNION {[1..n -> Alphabet] : n \in 0..MaxText}

\* widths label placement can pass: negative and zero spaces of bars with
\* no room, fractional spaces, and the non-finite spaces of a chart whose
\* first step has count 0
WrapWidths ==
    {Num(0 - 8), Num(0), Num(7), Frac(21, 2), Num(14), Num(21), Num(28),
     NaN, Infinity, NegInfinity}

InitWrap ==
    /\ wrapText \in Texts
    /\ wrapWidth \in WrapWidths
    /\ wrapPos = 0
    /\ wrapSt = WrapStart
    /\ wrapOut = NoWrapResult
    /\ pc = "wrap"
    /\ data = <<>>
    /\ chart = [width |-> Num(0), height |-> Num(0), gradientBase |-> Num(0)]
    /\ annotated = <<>>
    /\ firstStepCount = null
    /\ preceedingStepCount = null
    /\ index = 0
    /\ ops = <<>>
    /\ barSpacing = NoDouble
    /\ barHeight = NoDouble
    /\ ctx = DefaultCanvas
    /\ rawJson = NoText
    /\ funnelData = <<>>
    /\ funnelDataError = null
    /\ result = null
    /\ topOfFunnelCount = null
    /\ statsCall = NoStatsCall
    /\ inputValue = NoInputValue
    /\ twin = NoTwin

WrapWord ==
    /\ pc = "wrap"
    /\ wrapPos < Len(Split(wrapText))
    /\ wrapSt' = wrapWord(wrapSt, Split(wrapText)[wrapPos + 1],
                          nonCenterFontSize, wrapWidth)
    /\ wrapPos' = wrapPos + 1
    /\ UNCHANGED <<pc, wrapText, wrapWidth, wrapOut>>
    /\ UNCHANGED <<drawVars, layoutVars>>
    /\ UNCHANGED <<canvasVars, inputVars>>
    /\ UNCHANGED <<memoVars, statsVars, numberVars, twinVars>>

WrapReturn ==
    /\ pc = "wrap"
    /\ wrapPos = Len(Split(wrapText))
    /\ wrapOut' = wrapReturn(wrapSt)
    /\ pc' = "wrapped"
    /\ UNCHANGED <<wrapText, wrapWidth, wrapPos, wrapSt>>
    /\ UNCHANGED <<drawVars, layoutVars>>
    /\ UNCHANGED <<canvasVars, inputVars>>
    /\ UNCHANGED <<memoVars, statsVars, numberVars, twinVars>>

NextWrap == WrapWord \/ WrapReturn

SpecWrap == InitWrap /\ [][NextWrap]_vars

WordsOfWrapText == Split(wrapText)

WordTooWide(word) ==
    JsGt(measureTextWidth(word, nonCenterFontSize), wrapWidth)

\* C4: the lines wrapTextToWidth returns, joined with single spaces, are the
\* original text: no word is dropped, duplicated or reordered and no empty
\* line is added, for every text and every width.
C4_JoinedLinesAreText ==
    pc = "wrapped" => Join(wrapOut.lines, <<SP>>) = wrapText

\* the first word alone exceeds the width and more words follow
C4_Witness ==
    /\ pc = "wrapped"
    /\ Len(WordsOfWrapText) >= 2
    /\ WordTooWide(WordsOfWrapText[1])
    /\ Len(wrapOut.lines) >= 2

\* C5: hasHorizontalOverflow is true if and only if at least one single word
\* of the text (split on single spaces) is wider than the wrap width.
C5_OverflowIffWordTooWide ==
    pc = "wrapped" =>
        (wrapOut.hasHorizontalOverflow <=>
            \E i \in 1..Len(WordsOfWrapText) : WordTooWide(WordsOfWrapText[i]))

\* the only too wide word comes after a word that fits
C5_Witness ==
    /\ pc = "wrapped"
    /\ wrapOut.hasHorizontalOverflow
    /\ Len(WordsOfWrapText) >= 2
    /\ ~WordTooWide(WordsOfWrapText[1])
    /\ WordTooWide(WordsOfWrapText[2])

\* C6: when the whole text is at most as wide as the wrap width, the result
\* is exactly one line, equal to the text, and no overflow is reported.
C6_ShortTextIsOneLine ==
    (pc = "wrapped" /\
     JsLe(measureTextWidth(wrapText, nonCenterFontSize), wrapWidth)) =>
        (wrapOut.lines = <<wrapText>> /\ ~wrapOut.hasHorizontalOverflow)

\* a fitting text of several words at a finite width
C6_Witness ==
    /\ pc = "wrapped"
    /\ IsFinite(wrapWidth)
    /\ JsLe(measureTextWidth(wrapText, nonCenterFontSize), wrapWidth)
    /\ Len(WordsOfWrapText) >= 3
    /\ wrapOut.lines = <<wrapText>>

(***************************************************************************)
(* Data points.                                                            *)
(***************************************************************************)
Blank == [kind |-> "blank"]

Step(name, count) == [kind |-> "step", name |-> name, count |-> count]

IsBlank(dataPoint) == dataPoint.kind = "blank"

\* a validation in which every blank starts a new funnel
RECURSIVE ValidFromBlankResets(_, _, _)
ValidFromBlankResets(points, i, lastCount) ==
    IF i > Len(points) THEN null
    ELSE IF IsBlank(points[i]) THEN ValidFromBlankResets(points, i + 1, null)
    ELSE IF JsLt(points[i].count, Num(0))
    THEN [error |-> "step count at index " \o ToString(i - 1) \o
                    " is negative"]
    ELSE IF lastCount # null /\ JsGt(points[i].count, lastCount)
    THEN [error |-> "step count at index " \o ToString(i - 1) \o
                    " is greater than the previous step count"]
    ELSE ValidFromBlankResets(points, i + 1, points[i].count)

\* the loop of validateData from the point at position i (index i - 1) on:
\* the { error } it returns, or null
RECURSIVE ValidFrom(_, _, _)
ValidFrom(points, i, lastCount) ==
    IF i > Len(points) THEN null
    ELSE IF IsBlank(points[i]) THEN ValidFrom(points, i + 1, lastCount)
    ELSE IF JsLt(points[i].count, Num(0))
    THEN [error |-> "step count at index " \o ToString(i - 1) \o
                    " is negative"]
    ELSE IF lastCount # null /\ JsGt(points[i].count, lastCount)
    THEN [error |-> "step count at index " \o ToString(i - 1) \o
                    " is greater than the previous step count"]
    ELSE ValidFrom(points, i + 1, points[i].count)

\* validateData of FunnelDataInput
validateData(points) == ValidFrom(points, 1, null)

(***************************************************************************)
(* annotateData: the callback of data.map, one data point.                 *)
(***************************************************************************)
\* a callback in which a blank forgets the preceding step
annotateBlankResets(dataPoint, first, preceeding) ==
    [point |-> dataPoint, first |-> first, preceeding |-> null]

\* a callback that measures every step against its predecessor only
annotateStepChained(dataPoint, first, preceeding) ==
    LET newFirst == IF preceeding = null THEN dataPoint.count ELSE preceeding
    IN  [point |->
            [kind |-> "step", name |-> dataPoint.name,
             count |-> dataPoint.count,
             absoluteProportion |-> JsDiv(dataPoint.count, newFirst),
             relativeProportion |->
                 IF preceeding = null THEN null
                 ELSE JsDiv(dataPoint.count, preceeding)],
         first |-> newFirst, preceeding |-> dataPoint.count]

\* a callback that returns the bare proportions and drops the input fields
annotateStepDropsName(dataPoint, first, preceeding) ==
    LET newFirst == IF first = null THEN dataPoint.count ELSE first
    IN  [point |->
            [kind |-> "step", name |-> <<>>, count |-> dataPoint.count,
             absoluteProportion |-> JsDiv(dataPoint.count, newFirst),
             relativeProportion |->
                 IF preceeding = null THEN null
                 ELSE JsDiv(dataPoint.count, preceeding)],
         first |-> newFirst, preceeding |-> dataPoint.count]

\* a callback that gives the first step a relative proportion of 1
annotateStepFirstRelative(dataPoint, first, preceeding) ==
    LET newFirst == IF first = null THEN dataPoint.count ELSE first
    IN  [point |->
            [kind |-> "step", name |-> dataPoint.name,
             count |-> dataPoint.count,
             absoluteProportion |-> JsDiv(dataPoint.count, newFirst),
             relativeProportion |->
                 IF preceeding = null THEN JsDiv(dataPoint.count, newFirst)
                 ELSE JsDiv(dataPoint.count, preceeding)],
         first |-> newFirst, preceeding |-> dataPoint.count]

\* a callback that turns a blank into a step of count 0 without a name
annotateBlankAsEmptyStep(dataPoint, first, preceeding) ==
    [point |->
        [kind |-> "step", name |-> <<>>, count |-> Num(0),
         absoluteProportion |-> Num(0), relativeProportion |-> null],
     first |-> first, preceeding |-> preceeding]

\* if (dataPoint === "blank") return dataPoint;
annotateBlank(dataPoint, first, preceeding) ==
    [point |-> dataPoint, first |-> first, preceeding |-> preceeding]

\* the rest of the callback, for a step
annotateStep(dataPoint, first, preceeding) ==
    LET newFirst == IF first = null THEN dataPoint.count ELSE first
    IN  [point |->
            [kind |-> "step", name |-> dataPoint.name,
             count |-> dataPoint.count,
             absoluteProportion |-> JsDiv(dataPoint.count, newFirst),
             relativeProportion |->
                 IF preceeding = null THEN null
                 ELSE JsDiv(dataPoint.count, preceeding)],
         first |-> newFirst, preceeding |-> dataPoint.count]

RECURSIVE AnnotateFold(_, _, _, _)
AnnotateFold(points, i, first, preceeding) ==
    IF i > Len(points) THEN <<>>
    ELSE LET r == IF IsBlank(points[i])
                  THEN annotateBlank(points[i], first, preceeding)
                  ELSE annotateStep(points[i], first, preceeding)
         IN  <<r.point>> \o AnnotateFold(points, i + 1, r.first, r.preceeding)

\* annotateData as one call
annotateData(points) == AnnotateFold(points, 1, null, null)

(***************************************************************************)
(* Canvas operations.  Every fillRect and fillText call is recorded with   *)
(* the fill style, alignment and font size in effect, the index of the     *)
(* data point it belongs to and the write function that made it (slot).    *)
(***************************************************************************)
\* getColor: the gradient evaluated at the normalised proportion
getColor(absoluteProportion, gradientBase) ==
    Colour("gradient",
           MathMax(JsDiv(JsSub(absoluteProportion, gradientBase),
                         JsSub(Num(1), gradientBase)),
                   Num(0)))

\* ChartContext.fillRect
fillRect(i, rect, color) ==
    <<[op |-> "fillRect", index |-> i, slot |-> "bar", text |-> <<>>,
       x |-> rect.x, y |-> rect.y, width |-> rect.width,
       height |-> rect.height, fontSize |-> 0, color |-> color,
       textAlign |-> "none"]>>

\* ChartContext.writeText: one fillText per line, centred vertically on y
writeText(i, slot, position, lines, fontSize, color, textAlign) ==
    LET lineHeight == fontSize + textPadding
        totalHeight == measureHeightOfLines(Len(lines), fontSize)
        topOfFirstLine == JsSub(position.y, Frac(totalHeight, 2))
    IN  [k \in 1..Len(lines) |->
            [op |-> "fillText", index |-> i, slot |-> slot,
             text |-> lines[k], x |-> position.x,
             y |-> JsAdd(topOfFirstLine, Num((k - 1) * lineHeight)),
             width |-> Num(0), height |-> Num(0), fontSize |-> fontSize,
             color |-> color, textAlign |-> textAlign]]

MiddleY(rect) == JsAdd(rect.y, JsDiv(rect.height, Num(2)))

writeCenterText(i, rect, lines, fontSize) ==
    writeText(i, "center",
              [x |-> JsAdd(rect.x, JsDiv(rect.width, Num(2))),
               y |-> MiddleY(rect)],
              lines, fontSize, white, "center")

writeInnerLeftText(i, rect, lines, fontSize) ==
    writeText(i, "innerLeft",
              [x |-> JsAdd(rect.x, Num(textPadding)), y |-> MiddleY(rect)],
              lines, fontSize, white, "left")

writeOuterLeftText(i, rect, lines, fontSize) ==
    writeText(i, "outerLeft",
              [x |-> JsSub(rect.x, Num(textPadding)), y |-> MiddleY(rect)],
              lines, fontSize, black, "right")

\* an inner-right text written at the position of the outer-right one
writeInnerRightTextAtOuterPosition(i, rect, lines, fontSize) ==
    writeText(i, "innerRight",
              [x |-> JsAdd(JsAdd(rect.x, rect.width), Num(textPadding)),
               y |-> MiddleY(rect)],
              lines, fontSize, white, "right")

writeInnerRightText(i, rect, lines, fontSize) ==
    writeText(i, "innerRight",
              [x |-> JsSub(JsAdd(rect.x, rect.width), Num(textPadding)),
               y |-> MiddleY(rect)],
              lines, fontSize, white, "right")

writeOuterRightText(i, rect, lines, fontSize) ==
    writeText(i, "outerRight",
              [x |-> JsAdd(JsAdd(rect.x, rect.width), Num(textPadding)),
               y |-> MiddleY(rect)],
              lines, fontSize, black, "left")

(***************************************************************************)
(* Label placement.                                                        *)
(***************************************************************************)
\* a writeStepName that never looks at the number of lines
writeStepNameIgnoresLineCount(i, rect, text, spacing) ==
    LET wrappedInside ==
            wrapTextToWidth(text, nonCenterFontSize, spacing.inside)
        wrappedOutside ==
            wrapTextToWidth(text, nonCenterFontSize, spacing.outside)
    IN  IF wrappedInside.hasHorizontalOverflow /\
           ~wrappedOutside.hasHorizontalOverflow
        THEN writeOuterLeftText(i, rect, wrappedOutside.lines,
                                nonCenterFontSize)
        ELSE writeInnerLeftText(i, rect, wrappedInside.lines,
                                nonCenterFontSize)

writeStepName(i, rect, text, spacing) ==
    LET wrappedInside ==
            wrapTextToWidth(text, nonCenterFontSize, spacing.inside)
        wrappedOutside ==
            wrapTextToWidth(text, nonCenterFontSize, spacing.outside)
    IN  IF \/ /\ wrappedInside.hasHorizontalOverflow
              /\ ~wrappedOutside.hasHorizontalOverflow
           \/ /\ Len(wrappedInside.lines) > 2
              /\ Len(wrappedOutside.lines) < Len(wrappedInside.lines)
        THEN writeOuterLeftText(i, rect, wrappedOutside.lines,
                                nonCenterFontSize)
        ELSE writeInnerLeftText(i, rect, wrappedInside.lines,
                                nonCenterFontSize)

\* a writeStats that keeps the stats inside whenever the inside space is
\* not negative
writeStatsPrefersInside(i, rect, text, spacing) ==
    LET joinedText == Join(text, <<SP, "/", SP>>)
        multilineWidth == measureLinesWidth(text, nonCenterFontSize)
        multilineHeight == measureHeightOfLines(Len(text), nonCenterFontSize)
        singleLineWidth == measureTextWidth(joinedText, nonCenterFontSize)
        isSingleLineMode ==
            /\ JsGt(Num(multilineHeight + 2 * textPadding), rect.height)
            /\ \/ JsLe(singleLineWidth, spacing.inside)
               \/ JsLe(singleLineWidth, spacing.outside)
        textToWrite == IF isSingleLineMode THEN <<joinedText>> ELSE text
    IN  IF JsGe(spacing.inside, Num(0))
        THEN writeInnerRightText(i, rect, textToWrite, nonCenterFontSize)
        ELSE writeOuterRightText(i, rect, textToWrite, nonCenterFontSize)

\* a writeStats that joins the values whenever the block is too tall
writeStatsJoinsWheneverTooTall(i, rect, text, spacing) ==
    LET joinedText == Join(text, <<SP, "/", SP>>)
        multilineWidth == measureLinesWidth(text, nonCenterFontSize)
        multilineHeight == measureHeightOfLines(Len(text), nonCenterFontSize)
        singleLineWidth == measureTextWidth(joinedText, nonCenterFontSize)
        isSingleLineMode ==
            JsGt(Num(multilineHeight + 2 * textPadding), rect.height)
        textToWrite == IF isSingleLineMode THEN <<joinedText>> ELSE text
        textWidth ==
            IF isSingleLineMode THEN singleLineWidth ELSE multilineWidth
    IN  IF JsLt(textWidth, spacing.inside) \/
           JsGe(spacing.inside, spacing.outside)
        THEN writeInnerRightText(i, rect, textToWrite, nonCenterFontSize)
        ELSE writeOuterRightText(i, rect, textToWrite, nonCenterFontSize)

\* a writeStats that places the joined line by the width of the block
writeStatsPlacesByBlockWidth(i, rect, text, spacing) ==
    LET joinedText == Join(text, <<SP, "/", SP>>)
        multilineWidth == measureLinesWidth(text, nonCenterFontSize)
        multilineHeight == measureHeightOfLines(Len(text), nonCenterFontSize)
        singleLineWidth == measureTextWidth(joinedText, nonCenterFontSize)
        isSingleLineMode ==
            /\ JsGt(Num(multilineHeight + 2 * textPadding), rect.height)
            /\ \/ JsLe(singleLineWidth, spacing.inside)
               \/ JsLe(singleLineWidth, spacing.outside)
        textToWrite == IF isSingleLineMode THEN <<joinedText>> ELSE text
    IN  IF JsLt(multilineWidth, spacing.inside) \/
           JsGe(spacing.inside, spacing.outside)
        THEN writeInnerRightText(i, rect, textToWrite, nonCenterFontSize)
        ELSE writeOuterRightText(i, rect, textToWrite, nonCenterFontSize)

writeStats(i, rect, text, spacing) ==
    LET joinedText == Join(text, <<SP, "/", SP>>)
        multilineWidth == measureLinesWidth(text, nonCenterFontSize)
        multilineHeight == measureHeightOfLines(Len(text), nonCenterFontSize)
        singleLineWidth == measureTextWidth(joinedText, nonCenterFontSize)
        \* prefer multiline; i.e. only use single line if multiline is too
        \* tall and single line is not too wide
        isSingleLineMode ==
            /\ JsGt(Num(multilineHeight + 2 * textPadding), rect.height)
            /\ \/ JsLe(singleLineWidth, spacing.inside)
               \/ JsLe(singleLineWidth, spacing.outside)
        textToWrite == IF isSingleLineMode THEN <<joinedText>> ELSE text
        textWidth ==
            IF isSingleLineMode THEN singleLineWidth ELSE multilineWidth
    IN  IF JsLt(textWidth, spacing.inside) \/
           JsGe(spacing.inside, spacing.outside)
        THEN writeInnerRightText(i, rect, textToWrite, nonCenterFontSize)
        ELSE writeOuterRightText(i, rect, textToWrite, nonCenterFontSize)

writeUserCount(i, rect, text) ==
    writeCenterText(i, rect, <<text>>, centerFontSize)

(***************************************************************************)
(* drawChart: the callback of annotateData(data).forEach, one data point.  *)
(***************************************************************************)
\* height / (data.length - 1 / 4)
verticalBarSpacing(height, length) ==
    JsDiv(height, JsSub(Num(length), Frac(1, 4)))

\* a rectangle pushed to the right edge: the padding is not halved
barRectRightAligned(dataPoint, i, length, size) ==
    LET barWidth == JsMul(size.width, dataPoint.absoluteProportion)
        padding == JsSub(size.width, barWidth)
        spacingY == verticalBarSpacing(size.height, length)
    IN  [x |-> padding,
         y |-> JsMul(Num(i), spacingY),
         width |-> barWidth,
         height |-> JsMul(spacingY, Frac(3, 4))]

barRect(dataPoint, i, length, size) ==
    LET barWidth == JsMul(size.width, dataPoint.absoluteProportion)
        padding == JsDiv(JsSub(size.width, barWidth), Num(2))
        spacingY == verticalBarSpacing(size.height, length)
    IN  [x |-> padding,
         y |-> JsMul(Num(i), spacingY),
         width |-> barWidth,
         height |-> JsMul(spacingY, Frac(3, 4))]

\* `${dataPoint.count} users`
usersLabelOf(dataPoint) ==
    NumberToString(dataPoint.count) \o <<SP, "u", "s", "e", "r", "s">>

\* a label that shows 0% for a proportion that is not a finite number
PercentHidesNonFinite(proportion) ==
    IF IsFinite(proportion)
    THEN NumberToString(MathRound(JsMul(proportion, Num(100)))) \o <<"%">>
    ELSE <<"0", "%">>

Percent(proportion) ==
    NumberToString(MathRound(JsMul(proportion, Num(100)))) \o <<"%">>

percentageLabelsOf(dataPoint) ==
    <<Percent(dataPoint.absoluteProportion) \o
        <<SP, "a", "b", "s", "o", "l", "u", "t", "e">>>> \o
    (IF dataPoint.relativeProportion = null THEN <<>>
     ELSE <<Percent(dataPoint.relativeProportion) \o
              <<SP, "r", "e", "l", "a", "t", "i", "v", "e">>>>)

outsideBarSpaceOf(barWidth, size) ==
    JsSub(JsDiv(JsSub(size.width, barWidth), Num(2)), Num(2 * textPadding))

\* a narrow bar whose count label is forgotten instead of merged
narrowBarLabelsWithoutCount(dataPoint, i, rect, size) ==
    LET spacing ==
            [inside |->
                 JsSub(JsDiv(JsSub(rect.width, Num(betweenTextPadding)),
                             Num(2)),
                       Num(textPadding)),
             outside |-> outsideBarSpaceOf(rect.width, size)]
    IN  writeStepName(i, rect, dataPoint.name, spacing) \o
        writeStats(i, rect, percentageLabelsOf(dataPoint), spacing)

\* we can't fit the label for the number of users inside the bar, so we
\* add it to the "stats" section instead
narrowBarLabels(dataPoint, i, rect, size) ==
    LET spacing ==
            [inside |->
                 JsSub(JsDiv(JsSub(rect.width, Num(betweenTextPadding)),
                             Num(2)),
                       Num(textPadding)),
             outside |-> outsideBarSpaceOf(rect.width, size)]
    IN  writeStepName(i, rect, dataPoint.name, spacing) \o
        writeStats(i, rect,
                   <<usersLabelOf(dataPoint)>> \o percentageLabelsOf(dataPoint),
                   spacing)

\* the inside space taken without the gap to the centred count label
wideBarLabelsWithoutGap(dataPoint, i, rect, size) ==
    LET usersLabel == usersLabelOf(dataPoint)
        usersLabelWidth == measureTextWidth(usersLabel, centerFontSize)
        spacing ==
            [inside |->
                 JsSub(JsDiv(JsSub(rect.width, usersLabelWidth), Num(2)),
                       Num(textPadding)),
             outside |-> outsideBarSpaceOf(rect.width, size)]
    IN  writeUserCount(i, rect, usersLabel) \o
        writeStepName(i, rect, dataPoint.name, spacing) \o
        writeStats(i, rect, percentageLabelsOf(dataPoint), spacing)

\* the count label fits: it is centred and the other labels share the rest
wideBarLabels(dataPoint, i, rect, size) ==
    LET usersLabel == usersLabelOf(dataPoint)
        usersLabelWidth == measureTextWidth(usersLabel, centerFontSize)
        spacing ==
            [inside |->
                 JsSub(JsSub(JsDiv(JsSub(rect.width, usersLabelWidth), Num(2)),
                             Num(textPadding)),
                       Num(betweenTextPadding)),
             outside |-> outsideBarSpaceOf(rect.width, size)]
    IN  writeUserCount(i, rect, usersLabel) \o
        writeStepName(i, rect, dataPoint.name, spacing) \o
        writeStats(i, rect, percentageLabelsOf(dataPoint), spacing)

\* a callback that writes the labels before it fills the rectangle
drawBarLabelsFirst(dataPoint, i, length, size) ==
    LET rect == barRect(dataPoint, i, length, size)
        barWidth == rect.width
        color == getColor(dataPoint.absoluteProportion, size.gradientBase)
        usersLabelWidth ==
            measureTextWidth(usersLabelOf(dataPoint), centerFontSize)
    IN  (IF JsGt(JsAdd(usersLabelWidth, Num(2 * textPadding)), barWidth)
         THEN narrowBarLabels(dataPoint, i, rect, size)
         ELSE wideBarLabels(dataPoint, i, rect, size)) \o
        fillRect(i, rect, color)

\* the callback for a step; i is the zero-based index of the data point
drawBar(dataPoint, i, length, size) ==
    LET rect == barRect(dataPoint, i, length, size)
        barWidth == rect.width
        color == getColor(dataPoint.absoluteProportion, size.gradientBase)
        usersLabelWidth ==
            measureTextWidth(usersLabelOf(dataPoint), centerFontSize)
    IN  fillRect(i, rect, color) \o
        IF JsGt(JsAdd(usersLabelWidth, Num(2 * textPadding)), barWidth)
        THEN narrowBarLabels(dataPoint, i, rect, size)
        ELSE wideBarLabels(dataPoint, i, rect, size)

(***************************************************************************)
(* annotateData as a process: data.map visits the data point by point.     *)
(* It is exported and takes any sequence of data points, validated or not. *)
(***************************************************************************)
Name1 == <<"a">>
Name2 == <<"a", "a", SP, "a", "a", SP, "a", "a">>

Names == {Name1, Name2}

Counts == {Num(c) : c \in 0..MaxCount}

DataPoints == {Blank} \cup {Step(nm, c) : nm \in Names, c \in Counts}

DataSeqs == UNION {[1..n -> DataPoints] : n \in 0..MaxLen}

NoChart == [width |-> Num(0), height |-> Num(0), gradientBase |-> Num(0)]

InitAnnotate ==
    /\ data \in DataSeqs
    /\ chart = NoChart
    /\ pc = "annotate"
    /\ annotated = <<>>
    /\ firstStepCount = null
    /\ preceedingStepCount = null
    /\ index = 0
    /\ ops = <<>>
    /\ barSpacing = NoDouble
    /\ barHeight = NoDouble
    /\ wrapText = <<>>
    /\ wrapWidth = Num(0)
    /\ wrapPos = 0
    /\ wrapSt = WrapStart
    /\ wrapOut = NoWrapResult
    /\ ctx = DefaultCanvas
    /\ rawJson = NoText
    /\ funnelData = <<>>
    /\ funnelDataError = null
    /\ result = null
    /\ topOfFunnelCount = null
    /\ statsCall = NoStatsCall
    /\ inputValue = NoInputValue
    /\ twin = NoTwin

AnnotateApply(r) ==
    /\ annotated' = Append(annotated, r.point)
    /\ firstStepCount' = r.first
    /\ preceedingStepCount' = r.preceeding
    /\ UNCHANGED <<data, chart, pc, index, ops>>
    /\ UNCHANGED <<wrapVars, layoutVars>>
    /\ UNCHANGED <<canvasVars, inputVars>>
    /\ UNCHANGED <<memoVars, statsVars, numberVars, twinVars>>

AnnotateBlank ==
    /\ pc = "annotate"
    /\ Len(annotated) < Len(data)
    /\ IsBlank(data[Len(annotated) + 1])
    /\ AnnotateApply(annotateBlank(data[Len(annotated) + 1],
                                   firstStepCount, preceedingStepCount))

AnnotateStep ==
    /\ pc = "annotate"
    /\ Len(annotated) < Len(data)
    /\ ~IsBlank(data[Len(annotated) + 1])
    /\ AnnotateApply(annotateStep(data[Len(annotated) + 1],
                                  firstStepCount, preceedingStepCount))

\* data.map returns
AnnotateReturn ==
    /\ pc = "annotate"
    /\ Len(annotated) = Len(data)
    /\ pc' = "annotated"
    /\ UNCHANGED <<data, chart, annotated, firstStepCount,
                   preceedingStepCount, index, ops>>
    /\ UNCHANGED <<wrapVars, layoutVars>>
    /\ UNCHANGED <<canvasVars, inputVars>>
    /\ UNCHANGED <<memoVars, statsVars, numberVars, twinVars>>

NextAnnotate == AnnotateBlank \/ AnnotateStep \/ AnnotateReturn

SpecAnnotate == InitAnnotate /\ [][NextAnnotate]_vars

(***************************************************************************)
(* One drawChart pass as a process: annotateData(data) is computed, then   *)
(* forEach visits the annotated points in order.  The application passes   *)
(* drawChart only data that validateData accepted.                         *)
(***************************************************************************)
ValidDataSeqs == {points \in DataSeqs : validateData(points) = null}

\* chart widths: too narrow for any count label, too narrow for the other
\* labels of a full bar, and roomy enough for three lines of step name
\* inside a third of the width and for the stats joined into one line
\* beside an empty bar
Charts ==
    {[width |-> Num(w), height |-> Num(100), gradientBase |-> Num(0)] :
        w \in {60, 100, 520}}

Init ==
    /\ data \in ValidDataSeqs
    /\ chart \in Charts
    /\ pc = "start"
    /\ annotated = <<>>
    /\ firstStepCount = null
    /\ preceedingStepCount = null
    /\ index = 0
    /\ ops = <<>>
    /\ barSpacing = NoDouble
    /\ barHeight = NoDouble
    /\ wrapText = <<>>
    /\ wrapWidth = Num(0)
    /\ wrapPos = 0
    /\ wrapSt = WrapStart
    /\ wrapOut = NoWrapResult
    /\ ctx = DefaultCanvas
    /\ rawJson = NoText
    /\ funnelData = <<>>
    /\ funnelDataError = null
    /\ result = null
    /\ topOfFunnelCount = null
    /\ statsCall = NoStatsCall
    /\ inputValue = NoInputValue
    /\ twin = NoTwin

\* annotateData(data) returns the array forEach will visit
DrawStart ==
    /\ pc = "start"
    /\ annotated' = annotateData(data)
    /\ pc' = "draw"
    /\ UNCHANGED <<data, chart, firstStepCount, preceedingStepCount, index,
                   ops>>
    /\ UNCHANGED <<wrapVars, layoutVars>>
    /\ UNCHANGED <<canvasVars, inputVars>>
    /\ UNCHANGED <<memoVars, statsVars, numberVars, twinVars>>

\* a callback that fills an empty rectangle for a blank
DrawBlankFillsEmptyRect ==
    /\ pc = "draw"
    /\ index < Len(annotated)
    /\ IsBlank(annotated[index + 1])
    /\ ops' = ops \o
              fillRect(index,
                       [x |-> Num(0),
                        y |-> JsMul(Num(index),
                                    verticalBarSpacing(chart.height,
                                                       Len(data))),
                        width |-> Num(0), height |-> Num(0)],
                       white)
    /\ index' = index + 1
    /\ UNCHANGED <<data, chart, pc, annotated, firstStepCount,
                   preceedingStepCount>>
    /\ UNCHANGED <<wrapVars, layoutVars>>
    /\ UNCHANGED <<canvasVars, inputVars>>
    /\ UNCHANGED <<memoVars, statsVars, numberVars, twinVars>>

\* if (dataPoint === "blank") return;
DrawBlank ==
    /\ pc = "draw"
    /\ index < Len(annotated)
    /\ IsBlank(annotated[index + 1])
    /\ index' = index + 1
    /\ UNCHANGED <<data, chart, pc, annotated, firstStepCount,
                   preceedingStepCount, ops>>
    /\ UNCHANGED <<wrapVars, layoutVars>>
    /\ UNCHANGED <<canvasVars, inputVars>>
    /\ UNCHANGED <<memoVars, statsVars, numberVars, twinVars>>

DrawBar ==
    /\ pc = "draw"
    /\ index < Len(annotated)
    /\ ~IsBlank(annotated[index + 1])
    /\ ops' = ops \o drawBar(annotated[index + 1], index, Len(data), chart)
    /\ index' = index + 1
    /\ UNCHANGED <<data, chart, pc, annotated, firstStepCount,
                   preceedingStepCount>>
    /\ UNCHANGED <<wrapVars, layoutVars>>
    /\ UNCHANGED <<canvasVars, inputVars>>
    /\ UNCHANGED <<memoVars, statsVars, numberVars, twinVars>>

\* a pass that paints the whole surface white once the callbacks are done
DrawReturnPaintsBackground ==
    /\ pc = "draw"
    /\ index = Len(annotated)
    /\ pc' = "done"
    /\ ops' = ops \o
              fillRect(index,
                       [x |-> Num(0), y |-> Num(0),
                        width |-> chart.width, height |-> chart.height],
                       white)
    /\ UNCHANGED <<data, chart, annotated, firstStepCount,
                   preceedingStepCount, index>>
    /\ UNCHANGED <<wrapVars, layoutVars>>
    /\ UNCHANGED <<canvasVars, inputVars>>
    /\ UNCHANGED <<memoVars, statsVars, numberVars, twinVars>>

DrawReturn ==
    /\ pc = "draw"
    /\ index = Len(annotated)
    /\ pc' = "done"
    /\ UNCHANGED <<data, chart, annotated, firstStepCount,
                   preceedingStepCount, index, ops>>
    /\ UNCHANGED <<wrapVars, layoutVars>>
    /\ UNCHANGED <<canvasVars, inputVars>>
    /\ UNCHANGED <<memoVars, statsVars, numberVars, twinVars>>

Next == DrawStart \/ DrawBlank \/ DrawBar \/ DrawReturn

Spec == Init /\ [][Next]_vars

\* a spacing that leaves the bars short of the bottom of the canvas
verticalBarSpacingOverLength(height, length) ==
    DoubleDiv(height, length)

\* a spacing that pushes the last bar over the bottom of the canvas
verticalBarSpacingOverHalf(height, length) ==
    DoubleDiv(2 * height, 2 * length - 1)

\* const verticalBarSpacing = height / (data.length - 1 / 4), for a whole
\* height: data.length - 1 / 4 is exactly (4 * data.length - 1) / 4
verticalBarSpacingAsDouble(height, length) ==
    DoubleDiv(4 * height, 4 * length - 1)

\* const barHeight = verticalBarSpacing * (3 / 4)
barHeightAsDouble(spacing) == DoubleMul(spacing, 3, 0 - 2)

\* y: index * verticalBarSpacing
barTopAsDouble(i, spacing) == DoubleMul(spacing, i, 0)

(***************************************************************************)
(* The vertical layout of one drawChart pass as a process: forEach visits  *)
(* the points in order and every step gets its rectangle.                  *)
(***************************************************************************)
MaxHeight == 64

Heights == 1..MaxHeight

LayoutDataSeqs ==
    UNION {[1..n -> {Blank, Step(Name1, Num(1))}] : n \in 1..MaxLen}

InitLayout ==
    /\ data \in LayoutDataSeqs
    /\ chart \in {[width |-> Num(0), height |-> Num(h),
                   gradientBase |-> Num(0)] : h \in Heights}
    /\ pc = "layoutStart"
    /\ barSpacing = NoDouble
    /\ barHeight = NoDouble
    /\ annotated = <<>>
    /\ firstStepCount = null
    /\ preceedingStepCount = null
    /\ index = 0
    /\ ops = <<>>
    /\ wrapText = <<>>
    /\ wrapWidth = Num(0)
    /\ wrapPos = 0
    /\ wrapSt = WrapStart
    /\ wrapOut = NoWrapResult
    /\ ctx = DefaultCanvas
    /\ rawJson = NoText
    /\ funnelData = <<>>
    /\ funnelDataError = null
    /\ result = null
    /\ topOfFunnelCount = null
    /\ statsCall = NoStatsCall
    /\ inputValue = NoInputValue
    /\ twin = NoTwin

\* the two constants computed before forEach
LayoutStart ==
    /\ pc = "layoutStart"
    /\ barSpacing' = verticalBarSpacingAsDouble(chart.height.n, Len(data))
    /\ barHeight' = barHeightAsDouble(barSpacing')
    /\ pc' = "layout"
    /\ UNCHANGED <<data, chart, annotated, firstStepCount,
                   preceedingStepCount, index, ops>>
    /\ UNCHANGED wrapVars
    /\ UNCHANGED <<canvasVars, inputVars>>
    /\ UNCHANGED <<memoVars, statsVars, numberVars, twinVars>>

\* if (dataPoint === "blank") return;
LayoutBlank ==
    /\ pc = "layout"
    /\ index < Len(data)
    /\ IsBlank(data[index + 1])
    /\ index' = index + 1
    /\ UNCHANGED <<data, chart, pc, annotated, firstStepCount,
                   preceedingStepCount, ops>>
    /\ UNCHANGED <<wrapVars, barSpacing, barHeight>>
    /\ UNCHANGED <<canvasVars, inputVars>>
    /\ UNCHANGED <<memoVars, statsVars, numberVars, twinVars>>

\* the rectangle passed to chartCtx.fillRect
LayoutBar ==
    /\ pc = "layout"
    /\ index < Len(data)
    /\ ~IsBlank(data[index + 1])
    /\ ops' = Append(ops,
                     [op |-> "fillRect", index |-> index,
                      y |-> barTopAsDouble(index, barSpacing),
                      height |-> barHeight])
    /\ index' = index + 1
    /\ UNCHANGED <<data, chart, pc, annotated, firstStepCount,
                   preceedingStepCount>>
    /\ UNCHANGED <<wrapVars, barSpacing, barHeight>>
    /\ UNCHANGED <<canvasVars, inputVars>>
    /\ UNCHANGED <<memoVars, statsVars, numberVars, twinVars>>

LayoutReturn ==
    /\ pc = "layout"
    /\ index = Len(data)
    /\ pc' = "laidOut"
    /\ UNCHANGED <<data, chart, annotated, firstStepCount,
                   preceedingStepCount, index, ops>>
    /\ UNCHANGED <<wrapVars, barSpacing, barHeight>>
    /\ UNCHANGED <<canvasVars, inputVars>>
    /\ UNCHANGED <<memoVars, statsVars, numberVars, twinVars>>

NextLayout == LayoutStart \/ LayoutBlank \/ LayoutBar \/ LayoutReturn

SpecLayout == InitLayout /\ [][NextLayout]_vars

(***************************************************************************)
(* ChartContext on its canvas.  The canvas is stateful: every measureText, *)
(* fillText and fillRect is recorded with the font, fill style, alignment  *)
(* and baseline in effect when it happens.  The calls drawChart makes on   *)
(* a bar are taken in any order, which covers the order of the forEach     *)
(* callback; index counts the calls made.                                  *)
(***************************************************************************)
\* this._ctx.font = `bold ${fontSize}px Helvetica, Arial, sans-serif`
setFontSize(c, fontSize) ==
    [c EXCEPT !.font = Font("bold", fontSize, "Helvetica, Arial, sans-serif")]

\* an operation of the canvas and the state of the canvas it happens in
CanvasOp(op, slot, text, c) ==
    [op |-> op, slot |-> slot, text |-> text, font |-> c.font,
     fillStyle |-> c.fillStyle, textAlign |-> c.textAlign,
     textBaseline |-> c.textBaseline]

\* a measurement made with whatever font the canvas has
canvasMeasureTextWidthKeepsFont(c, slot, lines, fontSize) ==
    [ctx |-> c,
     ops |-> [k \in 1..Len(lines) |->
                 CanvasOp("measureText", slot, lines[k], c)]]

\* ChartContext.measureTextWidth: the font is set, then every line is
\* measured; slot names the label the caller is placing
canvasMeasureTextWidth(c, slot, lines, fontSize) ==
    LET set == setFontSize(c, fontSize)
    IN  [ctx |-> set,
         ops |-> [k \in 1..Len(lines) |->
                     CanvasOp("measureText", slot, lines[k], set)]]

\* a writeText that leaves the fill style as the last fillRect set it
canvasWriteTextKeepsFillStyle(c, calls) ==
    IF calls = <<>> THEN [ctx |-> c, ops |-> <<>>]
    ELSE LET set ==
                 [setFontSize(c, calls[1].fontSize)
                     EXCEPT !.textBaseline = "top",
                            !.textAlign = calls[1].textAlign]
         IN  [ctx |-> set,
              ops |-> [k \in 1..Len(calls) |->
                          CanvasOp("fillText", calls[k].slot, calls[k].text,
                                   set)]]

\* ChartContext.writeText on the canvas, for the fillText calls a write
\* function asks for (all of one writeText call, which has at least one
\* line: a wrapping, the stats and the count label are never empty):
\* baseline, fill style, alignment and font are set, then every line is
\* drawn
canvasWriteText(c, calls) ==
    IF calls = <<>> THEN [ctx |-> c, ops |-> <<>>]
    ELSE LET set ==
                 [setFontSize(c, calls[1].fontSize)
                     EXCEPT !.textBaseline = "top",
                            !.fillStyle = calls[1].color,
                            !.textAlign = calls[1].textAlign]
         IN  [ctx |-> set,
              ops |-> [k \in 1..Len(calls) |->
                          CanvasOp("fillText", calls[k].slot, calls[k].text,
                                   set)]]

\* a fillRect that fills with whatever fill style the canvas has
canvasFillRectKeepsFillStyle(c, color) ==
    [ctx |-> c, ops |-> <<CanvasOp("fillRect", "bar", <<>>, c)>>]

\* ChartContext.fillRect on the canvas
canvasFillRect(c, color) ==
    LET set == [c EXCEPT !.fillStyle = color]
    IN  [ctx |-> set, ops |-> <<CanvasOp("fillRect", "bar", <<>>, set)>>]

MaxCalls == 3

\* the rectangle of a bar
CanvasRect ==
    [x |-> Num(10), y |-> Num(0), width |-> Num(40), height |-> Num(75)]

\* step names, count labels and stats values
CanvasTexts == {<<"a">>, <<"a", SP, "M">>}

\* stats blocks
CanvasLines == {<<<<"a">>>>, <<<<"a">>, <<"M">>>>}

\* room inside the bar and none outside, and the converse
CanvasSpacings ==
    {[inside |-> Num(28), outside |-> Num(0)],
     [inside |-> Num(0), outside |-> Num(28)]}

\* colours getColor returns
CanvasColours ==
    {getColor(Num(1), Num(0)), getColor(Frac(1, 2), Num(0)),
     getColor(Num(0), Num(0))}

\* states a canvas that has been used can be in: as a pass of drawChart
\* that ended with the stats of a bar left it, and as another program left
\* it
UsedCanvases ==
    {[font |-> Font("bold", nonCenterFontSize, "Helvetica, Arial, sans-serif"),
      fillStyle |-> white, textAlign |-> "right", textBaseline |-> "top"],
     [font |-> Font("italic", 40, "serif"),
      fillStyle |-> getColor(Frac(1, 2), Num(0)), textAlign |-> "center",
      textBaseline |-> "bottom"]}

InitCanvas ==
    /\ data = <<>>
    /\ chart = NoChart
    /\ pc = "canvas"
    /\ annotated = <<>>
    /\ firstStepCount = null
    /\ preceedingStepCount = null
    /\ index = 0
    /\ ops = <<>>
    /\ wrapText = <<>>
    /\ wrapWidth = Num(0)
    /\ wrapPos = 0
    /\ wrapSt = WrapStart
    /\ wrapOut = NoWrapResult
    /\ barSpacing = NoDouble
    /\ barHeight = NoDouble
    /\ ctx = DefaultCanvas
    /\ rawJson = NoText
    /\ funnelData = <<>>
    /\ funnelDataError = null
    /\ result = null
    /\ topOfFunnelCount = null
    /\ statsCall = NoStatsCall
    /\ inputValue = NoInputValue
    /\ twin \in {[start |-> c, ctx |-> c, ops |-> <<>>] : c \in UsedCanvases}

\* the calls of writeStepName(chartCtx, rect, dataPoint.name, spacing) on
\* the canvas c: the measurements of the two wrappings, all made at the
\* font size of the step name and recorded as one per wrapping, then the
\* name
canvasWriteStepName(c, text, spacing) ==
    LET inside ==
            canvasMeasureTextWidth(c, "stepName", <<text>>, nonCenterFontSize)
        outside ==
            canvasMeasureTextWidth(inside.ctx, "stepName", <<text>>,
                                   nonCenterFontSize)
        written ==
            canvasWriteText(outside.ctx,
                            writeStepName(0, CanvasRect, text, spacing))
    IN  [ctx |-> written.ctx,
         ops |-> inside.ops \o outside.ops \o written.ops]

\* the calls of writeStats(chartCtx, rect, percentageLabels, spacing) on
\* the canvas c: the width of the block and of the joined line are
\* measured, then the stats are written
canvasWriteStats(c, text, spacing) ==
    LET multiline ==
            canvasMeasureTextWidth(c, "stats", text, nonCenterFontSize)
        singleLine ==
            canvasMeasureTextWidth(multiline.ctx, "stats",
                                   <<Join(text, <<SP, "/", SP>>)>>,
                                   nonCenterFontSize)
        written ==
            canvasWriteText(singleLine.ctx,
                            writeStats(0, CanvasRect, text, spacing))
    IN  [ctx |-> written.ctx,
         ops |-> multiline.ops \o singleLine.ops \o written.ops]

\* the canvas after a call and the log with the operations of the call; the
\* second canvas gets the same call, r2 is what the call does there
CanvasAfter(r, r2) ==
    /\ pc = "canvas"
    /\ index < MaxCalls
    /\ index' = index + 1
    /\ ctx' = r.ctx
    /\ ops' = ops \o r.ops
    /\ twin' = [twin EXCEPT !.ctx = r2.ctx, !.ops = twin.ops \o r2.ops]
    /\ UNCHANGED <<data, chart, pc, annotated, firstStepCount,
                   preceedingStepCount>>
    /\ UNCHANGED <<wrapVars, layoutVars, inputVars>>
    /\ UNCHANGED <<memoVars, statsVars, numberVars>>

\* chartCtx.fillRect(rect, color)
CanvasFillRect ==
    \E color \in CanvasColours :
        CanvasAfter(canvasFillRect(ctx, color),
                    canvasFillRect(twin.ctx, color))

\* const usersLabelWidth = chartCtx.measureTextWidth(usersLabel, 16)
CanvasMeasureUsersLabel ==
    \E text \in CanvasTexts :
        CanvasAfter(canvasMeasureTextWidth(ctx, "center", <<text>>,
                                           centerFontSize),
                    canvasMeasureTextWidth(twin.ctx, "center", <<text>>,
                                           centerFontSize))

\* writeUserCount(chartCtx, rect, usersLabel)
CanvasWriteUserCount ==
    \E text \in CanvasTexts :
        CanvasAfter(canvasWriteText(ctx, writeUserCount(0, CanvasRect, text)),
                    canvasWriteText(twin.ctx,
                                    writeUserCount(0, CanvasRect, text)))

\* writeStepName(chartCtx, rect, dataPoint.name, spacing)
CanvasWriteStepName ==
    \E text \in CanvasTexts, spacing \in CanvasSpacings :
        CanvasAfter(canvasWriteStepName(ctx, text, spacing),
                    canvasWriteStepName(twin.ctx, text, spacing))

\* writeStats(chartCtx, rect, percentageLabels, spacing)
CanvasWriteStats ==
    \E text \in CanvasLines, spacing \in CanvasSpacings :
        CanvasAfter(canvasWriteStats(ctx, text, spacing),
                    canvasWriteStats(twin.ctx, text, spacing))

NextCanvas ==
    \/ CanvasFillRect
    \/ CanvasMeasureUsersLabel
    \/ CanvasWriteUserCount
    \/ CanvasWriteStepName
    \/ CanvasWriteStats

SpecCanvas == InitCanvas /\ [][NextCanvas]_vars

(***************************************************************************)
(* FunnelDataInput: parseData, validateData and the onChange handler of    *)
(* the textarea, with the state of App the handler sets.  A text is taken  *)
(* as JSON.parse sees it.                                                  *)
(***************************************************************************)
\* typeof
typeOf(value) ==
    IF value.type \in {"null", "array", "object"} THEN "object"
    ELSE value.type

\* "name" in dataPoint, for an object or an array (which JSON gives indices
\* only)
HasProperty(value, name) ==
    value.type = "object" /\ name \in DOMAIN value.props

\* the string "blank"
BlankString == JsonString(<<"b", "l", "a", "n", "k">>)

\* a loop that reports the last element that fails instead of the first
RECURSIVE ParseFromReportsLast(_, _)
ParseFromReportsLast(items, i) ==
    LET rest == IF i >= Len(items) THEN null
                ELSE ParseFromReportsLast(items, i + 1)
        dataPoint == items[i]
        at == " at index " \o ToString(i - 1)
    IN  IF i > Len(items) THEN null
        ELSE IF rest # null THEN rest
        ELSE IF dataPoint = BlankString THEN null
        ELSE IF dataPoint.type = "null" THEN [error |-> "null" \o at]
        ELSE IF typeOf(dataPoint) # "object"
        THEN [error |-> "not \"blank\" or an object" \o at]
        ELSE IF ~HasProperty(dataPoint, "name")
        THEN [error |-> "step name missing" \o at]
        ELSE IF typeOf(dataPoint.props.name) # "string"
        THEN [error |-> "step name not a string" \o at]
        ELSE IF ~HasProperty(dataPoint, "count")
        THEN [error |-> "step count missing" \o at]
        ELSE IF typeOf(dataPoint.props.count) # "number"
        THEN [error |-> "step count not a number" \o at]
        ELSE null

\* the loop of parseData from the element at position i (index i - 1) on:
\* the { error } it returns, or null when it runs to its end
RECURSIVE ParseFrom(_, _)
ParseFrom(items, i) ==
    IF i > Len(items) THEN null
    ELSE LET dataPoint == items[i]
             at == " at index " \o ToString(i - 1)
         IN  IF dataPoint = BlankString THEN ParseFrom(items, i + 1)
             ELSE IF dataPoint.type = "null" THEN [error |-> "null" \o at]
             ELSE IF typeOf(dataPoint) # "object"
             THEN [error |-> "not \"blank\" or an object" \o at]
             ELSE IF ~HasProperty(dataPoint, "name")
             THEN [error |-> "step name missing" \o at]
             ELSE IF typeOf(dataPoint.props.name) # "string"
             THEN [error |-> "step name not a string" \o at]
             ELSE IF ~HasProperty(dataPoint, "count")
             THEN [error |-> "step count missing" \o at]
             ELSE IF typeOf(dataPoint.props.count) # "number"
             THEN [error |-> "step count not a number" \o at]
             ELSE ParseFrom(items, i + 1)

\* an element parseData let through, as the DataPoint the layout reads
AsDataPoint(value) ==
    IF value.type = "string" THEN Blank
    ELSE Step(value.props.name.value, value.props.count.value)

\* return { data: result }
AsData(items) == [k \in 1..Len(items) |-> AsDataPoint(items[k])]

parseData(text) ==
    IF ~text.isJson THEN [error |-> "invalid JSON"]
    ELSE IF text.value.type # "array" THEN [error |-> "not an array"]
    ELSE LET failure == ParseFrom(text.value.items, 1)
         IN  IF failure # null THEN failure
             ELSE [data |-> AsData(text.value.items)]

\* "error" in result
HasError(r) == "error" \in DOMAIN r

\* a data point in the text the textarea starts with: '"blank"' or
\* `{"name": "${dataPoint.name}", "count": ${dataPoint.count}}`
JsonOfDataPoint(dataPoint) ==
    IF IsBlank(dataPoint) THEN BlankString
    ELSE JsonObject([name |-> JsonString(dataPoint.name),
                     count |-> JsonNumber(dataPoint.count)])

\* the text useState(...) builds from value: JSON when every count prints
\* as a JSON number
rawJsonOf(value) ==
    IF \A k \in 1..Len(value) :
           IsBlank(value[k]) \/ IsFinite(value[k].count)
    THEN JsonOf(JsonArray([k \in 1..Len(value) |->
                              JsonOfDataPoint(value[k])]))
    ELSE NotJson

(***************************************************************************)
(* validateData on any sequence of data points.                            *)
(***************************************************************************)
ValidateCounts == {Num(c) : c \in (0 - 1)..MaxCount} \cup {Infinity}

ValidateSeqs ==
    UNION {[1..n -> {Blank} \cup {Step(Name1, c) : c \in ValidateCounts}] :
               n \in 0..MaxLen}

InitValidate ==
    /\ data \in ValidateSeqs
    /\ chart = NoChart
    /\ pc = "validate"
    /\ annotated = <<>>
    /\ firstStepCount = null
    /\ preceedingStepCount = null
    /\ index = 0
    /\ ops = <<>>
    /\ wrapText = <<>>
    /\ wrapWidth = Num(0)
    /\ wrapPos = 0
    /\ wrapSt = WrapStart
    /\ wrapOut = NoWrapResult
    /\ barSpacing = NoDouble
    /\ barHeight = NoDouble
    /\ ctx = DefaultCanvas
    /\ rawJson = NoText
    /\ funnelData = <<>>
    /\ funnelDataError = null
    /\ result = null
    /\ topOfFunnelCount = null
    /\ statsCall = NoStatsCall
    /\ inputValue = NoInputValue
    /\ twin = NoTwin

\* const validationError = validateData(data)
Validate ==
    /\ pc = "validate"
    /\ result' = validateData(data)
    /\ pc' = "validated"
    /\ UNCHANGED <<drawVars, wrapVars, layoutVars, canvasVars>>
    /\ UNCHANGED <<rawJson, funnelData, funnelDataError>>
    /\ UNCHANGED <<memoVars, statsVars, numberVars, twinVars>>

NextValidate == Validate

SpecValidate == InitValidate /\ [][NextValidate]_vars

(***************************************************************************)
(* writeStats on its own: one call with any rectangle, block of stats and  *)
(* pair of spaces.                                                         *)
(***************************************************************************)
\* a bar high enough for three lines and a bar too low for two
StatsRects ==
    {[x |-> Num(100), y |-> Num(0), width |-> Num(200), height |-> Num(h)] :
        h \in {75, 30}}

\* blocks of two and of three values, 42 and 70 wide when joined
StatsTexts == {<<<<"a">>, <<"M">>>>, <<<<"a">>, <<"M">>, <<"a">>>>}

\* spaces: negative, zero, around the width of the joined lines, infinite
StatsSpaces ==
    {Num(0 - 16), Num(0), Num(14), Num(41), Num(42), Num(43), Num(70),
     Num(84), Infinity, NegInfinity}

\* every pair of spaces that are numbers, and the pair drawChart passes for
\* a bar whose width is NaN
StatsSpacings ==
    {[inside |-> a, outside |-> b] : a \in StatsSpaces, b \in StatsSpaces}
        \cup {[inside |-> NaN, outside |-> NaN]}

InitStats ==
    /\ statsCall \in
           {[rect |-> r, text |-> t, spacing |-> sp] :
               r \in StatsRects, t \in StatsTexts, sp \in StatsSpacings}
    /\ pc = "stats"
    /\ data = <<>>
    /\ chart = NoChart
    /\ annotated = <<>>
    /\ firstStepCount = null
    /\ preceedingStepCount = null
    /\ index = 0
    /\ ops = <<>>
    /\ wrapText = <<>>
    /\ wrapWidth = Num(0)
    /\ wrapPos = 0
    /\ wrapSt = WrapStart
    /\ wrapOut = NoWrapResult
    /\ barSpacing = NoDouble
    /\ barHeight = NoDouble
    /\ ctx = DefaultCanvas
    /\ rawJson = NoText
    /\ funnelData = <<>>
    /\ funnelDataError = null
    /\ result = null
    /\ topOfFunnelCount = null
    /\ inputValue = NoInputValue
    /\ twin = NoTwin

\* writeStats(chartCtx, rect, text, spacing)
WriteStats ==
    /\ pc = "stats"
    /\ ops' = writeStats(0, statsCall.rect, statsCall.text, statsCall.spacing)
    /\ pc' = "written"
    /\ UNCHANGED <<data, chart, annotated, firstStepCount,
                   preceedingStepCount, index>>
    /\ UNCHANGED <<wrapVars, layoutVars, canvasVars, inputVars>>
    /\ UNCHANGED <<memoVars, statsVars, numberVars, twinVars>>

NextStats == WriteStats

SpecStats == InitStats /\ [][NextStats]_vars

(***************************************************************************)
(* The useMemo of App that needs the count at the top of the funnel: it    *)
(* annotates the data and then asks getTopOfFunnelCount for the count.     *)
(***************************************************************************)
\* a search that takes the first count that is not negative, the 0 of a
\* blank included
getTopOfFunnelCountStopsAtBlank(points) ==
    LET counts ==
            [i \in 1..Len(points) |->
                IF IsBlank(points[i]) THEN Num(0) ELSE points[i].count]
        found == {i \in 1..Len(counts) : JsGe(counts[i], Num(0))}
    IN  IF found = {} THEN Num(0)
        ELSE counts[CHOOSE i \in found : \A j \in found : i <= j]

\* data.map(blank ? 0 : count).find((count) => count > 0) ?? 0
getTopOfFunnelCount(points) ==
    LET counts ==
            [i \in 1..Len(points) |->
                IF IsBlank(points[i]) THEN Num(0) ELSE points[i].count]
        found == {i \in 1..Len(counts) : JsGt(counts[i], Num(0))}
    IN  IF found = {} THEN Num(0)
        ELSE counts[CHOOSE i \in found : \A j \in found : i <= j]

InitMemo ==
    /\ data \in ValidateSeqs
    /\ chart = NoChart
    /\ pc = "annotate"
    /\ annotated = <<>>
    /\ firstStepCount = null
    /\ preceedingStepCount = null
    /\ index = 0
    /\ ops = <<>>
    /\ wrapText = <<>>
    /\ wrapWidth = Num(0)
    /\ wrapPos = 0
    /\ wrapSt = WrapStart
    /\ wrapOut = NoWrapResult
    /\ barSpacing = NoDouble
    /\ barHeight = NoDouble
    /\ ctx = DefaultCanvas
    /\ rawJson = NoText
    /\ funnelData = <<>>
    /\ funnelDataError = null
    /\ result = null
    /\ topOfFunnelCount = null
    /\ statsCall = NoStatsCall
    /\ inputValue = NoInputValue
    /\ twin = NoTwin

\* const topOfFunnelCount = getTopOfFunnelCount(funnelData)
TopOfFunnel ==
    /\ pc = "annotated"
    /\ topOfFunnelCount' = getTopOfFunnelCount(data)
    /\ pc' = "memoised"
    /\ UNCHANGED <<data, chart, annotated, firstStepCount,
                   preceedingStepCount, index, ops>>
    /\ UNCHANGED <<wrapVars, layoutVars, canvasVars, inputVars>>
    /\ UNCHANGED <<statsVars, numberVars, twinVars>>

NextMemo == AnnotateBlank \/ AnnotateStep \/ AnnotateReturn \/ TopOfFunnel

SpecMemo == InitMemo /\ [][NextMemo]_vars

(***************************************************************************)
(* parseData on any text.                                                  *)
(***************************************************************************)
MaxItems == 3

\* values of a name or count property
PropertyValues ==
    {JsonNull, JsonNumber(Num(1)), JsonString(Name1)}

\* objects with and without the two properties
JsonObjects ==
    {JsonObject([p \in {} |-> JsonNull])} \cup
    {JsonObject([name |-> n]) : n \in PropertyValues} \cup
    {JsonObject([count |-> c]) : c \in PropertyValues} \cup
    {JsonObject([name |-> n, count |-> c]) :
         n \in PropertyValues, c \in PropertyValues}

JsonElements ==
    {BlankString, JsonString(Name1), JsonNull, JsonNumber(Num(1)),
     JsonBoolean(TRUE), JsonArray(<<>>)} \cup JsonObjects

JsonTexts ==
    {NotJson} \cup
    {JsonOf(v) : v \in {BlankString, JsonNull, JsonNumber(Num(1)),
                        JsonObject([p \in {} |-> JsonNull])}} \cup
    {JsonOf(JsonArray(items)) :
         items \in UNION {[1..n -> JsonElements] : n \in 0..MaxItems}}

InitParse ==
    /\ data = <<>>
    /\ chart = NoChart
    /\ pc = "parse"
    /\ annotated = <<>>
    /\ firstStepCount = null
    /\ preceedingStepCount = null
    /\ index = 0
    /\ ops = <<>>
    /\ wrapText = <<>>
    /\ wrapWidth = Num(0)
    /\ wrapPos = 0
    /\ wrapSt = WrapStart
    /\ wrapOut = NoWrapResult
    /\ barSpacing = NoDouble
    /\ barHeight = NoDouble
    /\ ctx = DefaultCanvas
    /\ rawJson \in JsonTexts
    /\ funnelData = <<>>
    /\ funnelDataError = null
    /\ result = null
    /\ topOfFunnelCount = null
    /\ statsCall = NoStatsCall
    /\ inputValue = NoInputValue
    /\ twin = NoTwin

\* const result = parseData(e.target.value)
Parse ==
    /\ pc = "parse"
    /\ result' = parseData(rawJson)
    /\ pc' = "parsed"
    /\ UNCHANGED <<drawVars, wrapVars, layoutVars, canvasVars>>
    /\ UNCHANGED <<rawJson, funnelData, funnelDataError>>
    /\ UNCHANGED <<memoVars, statsVars, numberVars, twinVars>>

NextParse == Parse

SpecParse == InitParse /\ [][NextParse]_vars

(***************************************************************************)
(* App and its FunnelDataInput: every edit of the textarea runs onChange,  *)
(* and the effect of App draws the data once a valid edit has set it.      *)
(***************************************************************************)
defaultFunnelData ==
    <<Step(<<"d", "i", "d", SP, "a", SP, "t", "h", "i", "n", "g">>,
           Num(100)),
      Step(<<"d", "i", "d", SP, "a", "n", "o", "t", "h", "e", "r", SP, "t",
                      "h", "i", "n", "g">>,
           Num(80)),
      Blank,
      Step(<<"d", "i", "d", SP, "s", "o", "m", "e", "t", "h", "i", "n", "g",
                      SP, "g", "o", "o", "d">>,
           Num(60))>>

MaxEditItems == 2

\* elements of the texts typed
EditElements ==
    {JsonNull} \cup
    {JsonObject([name |-> JsonString(Name1), count |-> JsonNumber(Num(c))]) :
         c \in {0 - 1, 1, 2}}

EditTexts ==
    {NotJson, JsonOf(JsonObject([p \in {} |-> JsonNull]))} \cup
    {JsonOf(JsonArray(items)) :
         items \in UNION {[1..n -> EditElements] : n \in 0..MaxEditItems}}

\* the first render: the states of App, the text of the textarea and the
\* chart the effect drew
InitApp ==
    /\ funnelData = defaultFunnelData
    /\ funnelDataError = null
    /\ rawJson = rawJsonOf(defaultFunnelData)
    /\ data = annotateData(defaultFunnelData)
    /\ result = null
    /\ chart = [width |-> Num(1200), height |-> Num(600),
                gradientBase |-> Num(0)]
    /\ pc = "app"
    /\ annotated = <<>>
    /\ firstStepCount = null
    /\ preceedingStepCount = null
    /\ index = 0
    /\ ops = <<>>
    /\ wrapText = <<>>
    /\ wrapWidth = Num(0)
    /\ wrapPos = 0
    /\ wrapSt = WrapStart
    /\ wrapOut = NoWrapResult
    /\ barSpacing = NoDouble
    /\ barHeight = NoDouble
    /\ ctx = DefaultCanvas
    /\ topOfFunnelCount = null
    /\ statsCall = NoStatsCall
    /\ inputValue = NoInputValue
    /\ twin = NoTwin

\* a handler that hands every parsed text to App, validated or not
onChangeSkipsValidation(text) ==
    LET parsed == parseData(text)
    IN  /\ rawJson' = text
        /\ result' = parsed
        /\ IF HasError(parsed)
           THEN /\ funnelDataError' = parsed.error
                /\ UNCHANGED <<funnelData, data>>
           ELSE /\ funnelDataError' = null
                /\ funnelData' = parsed.data
                /\ data' = annotateData(parsed.data)

\* onChange of the textarea for the text typed: setRawJson, parseData,
\* validateData, then setErrorMessage and, for valid data only, the
\* onChange of App (setFunnelData), after which the effect of App calls
\* drawChart(ctx, annotateData(funnelData), ...)
onChange(text) ==
    LET parsed == parseData(text)
        validationError ==
            IF HasError(parsed) THEN null ELSE validateData(parsed.data)
    IN  /\ rawJson' = text
        /\ IF HasError(parsed)
           THEN /\ result' = parsed
                /\ funnelDataError' = parsed.error
                /\ UNCHANGED <<funnelData, data>>
           ELSE IF validationError # null
           THEN /\ result' = validationError
                /\ funnelDataError' = validationError.error
                /\ UNCHANGED <<funnelData, data>>
           ELSE /\ result' = parsed
                /\ funnelDataError' = null
                /\ funnelData' = parsed.data
                /\ data' = annotateData(parsed.data)

\* the user edits the text
Edit ==
    /\ pc = "app"
    /\ \E text \in EditTexts : text # rawJson /\ onChange(text)
    /\ UNCHANGED <<chart, pc, annotated, firstStepCount,
                   preceedingStepCount, index, ops>>
    /\ UNCHANGED <<wrapVars, layoutVars, canvasVars>>
    /\ UNCHANGED <<memoVars, statsVars, numberVars, twinVars>>

NextApp == Edit

SpecApp == InitApp /\ [][NextApp]_vars

(***************************************************************************)
(* NumberInput: the three inputs of App for width, height and gradient     *)
(* base.  Each keeps the text it displays; a text that parses to a number  *)
(* within [min, max] is handed to the setter of App.                       *)
(***************************************************************************)
IsDigit(c) == c \in {"0", "1", "2", "3", "4", "5", "6", "7", "8", "9"}

DigitValue(c) == CHOOSE d \in 0..9 : DigitsOf(d) = <<c>>

\* the number of digits of the text from position i on
RECURSIVE DigitRun(_, _)
DigitRun(text, i) ==
    IF i <= Len(text) /\ IsDigit(text[i]) THEN 1 + DigitRun(text, i + 1)
    ELSE 0

\* the number a run of digits denotes
RECURSIVE NatOfDigits(_)
NatOfDigits(digits) ==
    IF Len(digits) = 0 THEN 0
    ELSE 10 * NatOfDigits(SubSeq(digits, 1, Len(digits) - 1)) +
         DigitValue(digits[Len(digits)])

\* parseFloat: the longest prefix that is a decimal literal (sign, digits,
\* fraction, exponent) is converted, whatever follows it is ignored, and a
\* text without such a prefix gives NaN
parseFloat(text) ==
    LET signed == Len(text) > 0 /\ text[1] \in {"-", "+"}
        negative == Len(text) > 0 /\ text[1] = "-"
        start == IF signed THEN 2 ELSE 1
        intLen == DigitRun(text, start)
        dot == start + intLen
        fracLen ==
            IF dot <= Len(text) /\ text[dot] = "."
            THEN DigitRun(text, dot + 1)
            ELSE 0
        mantissaEnd ==
            IF dot <= Len(text) /\ text[dot] = "." /\ intLen + fracLen > 0
            THEN dot + fracLen
            ELSE dot - 1
        e == mantissaEnd + 1
        hasE == e <= Len(text) /\ text[e] \in {"e", "E"}
        expSigned == hasE /\ e < Len(text) /\ text[e + 1] \in {"-", "+"}
        expStart == IF expSigned THEN e + 2 ELSE e + 1
        expLen == IF hasE THEN DigitRun(text, expStart) ELSE 0
        exponent ==
            IF expLen = 0 THEN 0
            ELSE NatOfDigits(SubSeq(text, expStart, expStart + expLen - 1))
        expNegative == expSigned /\ text[e + 1] = "-"
        magnitude ==
            NatOfDigits(SubSeq(text, start, dot - 1)) * 10 ^ fracLen +
            NatOfDigits(SubSeq(text, dot + 1, dot + fracLen))
        scaled ==
            IF expNegative THEN Frac(magnitude, 10 ^ (fracLen + exponent))
            ELSE Frac(magnitude * 10 ^ exponent, 10 ^ fracLen)
    IN  IF intLen + fracLen = 0 THEN NaN
        ELSE IF negative THEN JsNeg(scaled) ELSE scaled

\* the texts a typing event can leave in an input: empty, not a number, a
\* negative number, 0, fractions below 1, 1, a fraction above 1 and a number
\* with an exponent
TypedTexts ==
    {<<>>, <<"a">>, <<"-", "1">>, <<"0">>, <<"0", ".", "5">>,
     <<"0", ".", "9", "9">>, <<"1">>, <<"1", ".", "5">>, <<"1", "e", "2">>}

\* useState(1200), useState(600), useState(0)
InitialConfiguration ==
    [width |-> Num(1200), height |-> Num(600), gradientBase |-> Num(0)]

InitNumber ==
    /\ chart = InitialConfiguration
    /\ inputValue =
           [width |-> NumberToString(InitialConfiguration.width),
            height |-> NumberToString(InitialConfiguration.height),
            gradientBase |->
                NumberToString(InitialConfiguration.gradientBase)]
    /\ pc = "inputs"
    /\ data = <<>>
    /\ annotated = <<>>
    /\ firstStepCount = null
    /\ preceedingStepCount = null
    /\ index = 0
    /\ ops = <<>>
    /\ wrapText = <<>>
    /\ wrapWidth = Num(0)
    /\ wrapPos = 0
    /\ wrapSt = WrapStart
    /\ wrapOut = NoWrapResult
    /\ barSpacing = NoDouble
    /\ barHeight = NoDouble
    /\ ctx = DefaultCanvas
    /\ rawJson = NoText
    /\ funnelData = <<>>
    /\ funnelDataError = null
    /\ result = null
    /\ topOfFunnelCount = null
    /\ statsCall = NoStatsCall
    /\ twin = NoTwin

\* a handler that forgets the upper limit
handleChangeIgnoresMax(name, min, max, text) ==
    LET newValue == parseFloat(text)
    IN  /\ inputValue' = [inputValue EXCEPT ![name] = text]
        /\ IF /\ newValue # NaN
              /\ min = null \/ JsGe(newValue, min)
           THEN chart' = [chart EXCEPT ![name] = newValue]
           ELSE UNCHANGED chart
        /\ UNCHANGED <<data, pc, annotated, firstStepCount,
                       preceedingStepCount, index, ops>>
        /\ UNCHANGED <<wrapVars, layoutVars, canvasVars, inputVars>>
        /\ UNCHANGED <<memoVars, statsVars, twinVars>>

\* handleChange of the NumberInput that sets the field `name` of the
\* configuration: onChange is setWidth, setHeight or setGradientBase
handleChange(name, min, max, text) ==
    LET newValue == parseFloat(text)
    IN  /\ inputValue' = [inputValue EXCEPT ![name] = text]
        /\ IF /\ newValue # NaN
              /\ min = null \/ JsGe(newValue, min)
              /\ max = null \/ JsLe(newValue, max)
           THEN chart' = [chart EXCEPT ![name] = newValue]
           ELSE UNCHANGED chart
        /\ UNCHANGED <<data, pc, annotated, firstStepCount,
                       preceedingStepCount, index, ops>>
        /\ UNCHANGED <<wrapVars, layoutVars, canvasVars, inputVars>>
        /\ UNCHANGED <<memoVars, statsVars, twinVars>>

\* <NumberInput label="width" value={width} onChange={setWidth} min={1} />
TypeWidth ==
    \E text \in TypedTexts : handleChange("width", Num(1), null, text)

\* <NumberInput label="height" ... min={1} />
TypeHeight ==
    \E text \in TypedTexts : handleChange("height", Num(1), null, text)

\* <NumberInput label="gradient base" ... min={0} max={0.99} step={0.01} />
TypeGradientBase ==
    \E text \in TypedTexts :
        handleChange("gradientBase", Num(0), Frac(99, 100), text)

NextNumber == TypeWidth \/ TypeHeight \/ TypeGradientBase

SpecNumber == InitNumber /\ [][NextNumber]_vars

(***************************************************************************)
(* Properties of annotateData.                                             *)
(***************************************************************************)
StepIndices(points) == {i \in 1..Len(points) : ~IsBlank(points[i])}

IsFirstStep(points, i) ==
    i \in StepIndices(points) /\ \A j \in StepIndices(points) : i <= j

\* the nearest step before position i
IsPrecedingStep(points, j, i) ==
    /\ j \in StepIndices(points)
    /\ j < i
    /\ \A k \in StepIndices(points) : k < i => k <= j

C2_ProportionsSkipBlanks ==
    /\ \A i \in 1..Len(annotated) : \A f \in 1..Len(data) :
           (~IsBlank(data[i]) /\ IsFirstStep(data, f)) =>
               annotated[i].absoluteProportion =
                   JsDiv(data[i].count, data[f].count)
    /\ \A i \in 1..Len(annotated) : \A j \in 1..Len(data) :
           (~IsBlank(data[i]) /\ IsPrecedingStep(data, j, i)) =>
               annotated[i].relativeProportion =
                   JsDiv(data[i].count, data[j].count)
    /\ \A f \in 1..Len(annotated) :
           IsFirstStep(data, f) => firstStepCount = data[f].count
    /\ \A j \in 1..Len(annotated) :
           IsPrecedingStep(data, j, Len(annotated) + 1) =>
               preceedingStepCount = data[j].count

\* a step right after a blank, compared with the step before the blank
C2_Witness ==
    /\ Len(annotated) = 3
    /\ ~IsBlank(data[1])
    /\ IsBlank(data[2])
    /\ ~IsBlank(data[3])
    /\ data[1].count = Num(2)
    /\ data[3].count = Num(1)
    /\ annotated[3].relativeProportion = Frac(1, 2)

\* C3: the result has the length of the input, is blank exactly where the
\* input is blank, keeps name and count of every step, and the input is not
\* modified.
C3_AnnotatePreservesShape ==
    /\ [](/\ Len(annotated) <= Len(data)
          /\ pc # "annotate" => Len(annotated) = Len(data)
          /\ \A i \in 1..Len(annotated) :
                /\ IsBlank(annotated[i]) <=> IsBlank(data[i])
                /\ IsBlank(data[i]) => annotated[i] = data[i]
                /\ ~IsBlank(data[i]) =>
                       /\ annotated[i].name = data[i].name
                       /\ annotated[i].count = data[i].count)
    /\ [][data' = data]_vars

\* annotateData has returned for an input with blanks and differing steps
C3_Witness ==
    /\ pc = "annotated"
    /\ Len(data) = 3
    /\ IsBlank(data[2])
    /\ ~IsBlank(data[1])
    /\ ~IsBlank(data[3])
    /\ data[1].name # data[3].name
    /\ annotated[3].name = data[3].name

(***************************************************************************)
(* Properties of label placement.  Positions p are one-based positions of  *)
(* the data; the canvas operations of position p carry index p - 1.  The   *)
(* geometry below is computed from the input data and the chart size.      *)
(***************************************************************************)
\* positions of the steps whose forEach callback has run: all steps of the
\* data once drawChart has returned (pc = "done")
DrawnSteps == {p \in 1..index : ~IsBlank(data[p])}

\* the lines written for position p by one write function, in order
TextAt(p, slot) ==
    LET written ==
            SelectSeq(ops, LAMBDA o : o.index = p - 1 /\ o.slot = slot)
    IN  [k \in 1..Len(written) |-> written[k].text]

TopCount ==
    IF StepIndices(data) = {} THEN Num(0)
    ELSE data[CHOOSE f \in StepIndices(data) : IsFirstStep(data, f)].count

BarWidth(p) == JsMul(chart.width, JsDiv(data[p].count, TopCount))

BarLeft(p) == JsDiv(JsSub(chart.width, BarWidth(p)), Num(2))

BarRight(p) == JsAdd(BarLeft(p), BarWidth(p))

CountLabel(p) == usersLabelOf(data[p])

CountLabelWidth(p) == measureTextWidth(CountLabel(p), centerFontSize)

\* the count label plus its padding is wider than the bar
CountLabelTooWide(p) ==
    JsGt(JsAdd(CountLabelWidth(p), Num(2 * textPadding)), BarWidth(p))

OutsideSpace(p) == JsSub(BarLeft(p), Num(2 * textPadding))

\* half of the bar beyond the centred count label, less the paddings
InsideSpace(p) ==
    JsSub(JsDiv(JsSub(BarWidth(p), CountLabelWidth(p)), Num(2)),
          Num(textPadding + betweenTextPadding))

\* half of a bar without centred label, less the paddings
NarrowInsideSpace(p) ==
    JsSub(JsDiv(JsSub(BarWidth(p), Num(betweenTextPadding)), Num(2)),
          Num(textPadding))

SpaceInside(p) ==
    IF CountLabelTooWide(p) THEN NarrowInsideSpace(p) ELSE InsideSpace(p)

\* the wrap-based rule: the outside wrapping is used when (a) the inside
\* wrapping has hard overflow and the outside one has none, or (b) the
\* inside wrapping has more than 2 lines and the outside one fewer
WrapRuleSaysOutside(text, inside, outside) ==
    LET wrappedInside == wrapTextToWidth(text, nonCenterFontSize, inside)
        wrappedOutside == wrapTextToWidth(text, nonCenterFontSize, outside)
    IN  \/ /\ wrappedInside.hasHorizontalOverflow
           /\ ~wrappedOutside.hasHorizontalOverflow
        \/ /\ Len(wrappedInside.lines) > 2
           /\ Len(wrappedOutside.lines) < Len(wrappedInside.lines)

\* the step name is placed by the wrap-based rule with the given inside space
NamePlacedByWrapRule(p, inside) ==
    IF WrapRuleSaysOutside(data[p].name, inside, OutsideSpace(p))
    THEN /\ TextAt(p, "outerLeft") =
                wrapTextToWidth(data[p].name, nonCenterFontSize,
                                OutsideSpace(p)).lines
         /\ TextAt(p, "innerLeft") = <<>>
    ELSE /\ TextAt(p, "innerLeft") =
                wrapTextToWidth(data[p].name, nonCenterFontSize, inside).lines
         /\ TextAt(p, "outerLeft") = <<>>

StatsLines(p) == percentageLabelsOf(annotated[p])

MergedLines(p) == <<CountLabel(p)>> \o StatsLines(p)

\* the lines written on the right of bar p
RightLines(p) == TextAt(p, "innerRight") \o TextAt(p, "outerRight")

\* the block is written once, line by line or joined, on one side
WrittenOnceOnTheRight(p, block) ==
    /\ RightLines(p) \in {block, <<Join(block, <<SP, "/", SP>>)>>}
    /\ TextAt(p, "innerRight") = <<>> \/ TextAt(p, "outerRight") = <<>>

\* the block on the right is inner-right exactly when its width is less
\* than the inside space or the inside space is at least the outside space
StatsPlacedByWidth(p, inside) ==
    (TextAt(p, "innerRight") # <<>>) <=>
        \/ JsLt(measureLinesWidth(RightLines(p), nonCenterFontSize), inside)
        \/ JsGe(inside, OutsideSpace(p))

\* C7 as stated: a bar too narrow for its count label gets the step name
\* outer-left, the count label merged with the stats outer-right, and no
\* text at the center, inner-left or inner-right position.
C7_NarrowBarHasNoInnerText ==
    pc = "done" =>
        \A p \in DrawnSteps :
            CountLabelTooWide(p) =>
                /\ Join(TextAt(p, "outerLeft"), <<SP>>) = data[p].name
                /\ TextAt(p, "outerLeft") # <<>>
                /\ TextAt(p, "outerRight") \in
                       {MergedLines(p),
                        <<Join(MergedLines(p), <<SP, "/", SP>>)>>}
                /\ TextAt(p, "center") = <<>>
                /\ TextAt(p, "innerLeft") = <<>>
                /\ TextAt(p, "innerRight") = <<>>

\* C7 amended: a bar too narrow for its count label gets no text at the
\* center; the step name is written once on the left and the count label
\* merged with the stats lines (count label first) once on the right, each
\* by the usual rule of writeStepName and writeStats with the inside space
\* (barWidth - betweenTextPadding) / 2 - textPadding, so that each is outside
\* the bar unless that rule selects the inner position.
C7_NarrowBarMergesCountIntoStats ==
    pc = "done" =>
        \A p \in DrawnSteps :
            CountLabelTooWide(p) =>
                /\ TextAt(p, "center") = <<>>
                /\ NamePlacedByWrapRule(p, NarrowInsideSpace(p))
                /\ WrittenOnceOnTheRight(p, MergedLines(p))
                /\ StatsPlacedByWidth(p, NarrowInsideSpace(p))

\* a narrow bar of validated data whose step name is written inner-left
C7_Witness ==
    /\ validateData(data) = null
    /\ \E p \in DrawnSteps :
           /\ CountLabelTooWide(p)
           /\ TextAt(p, "innerLeft") # <<>>
           /\ TextAt(p, "outerRight") = MergedLines(p)

(***************************************************************************)
(* Horizontal extents of the written lines.                                *)
(***************************************************************************)
TextOps(p) ==
    {k \in 1..Len(ops) : ops[k].op = "fillText" /\ ops[k].index = p - 1}

LineWidth(o) == measureText(o.text, o.fontSize)

LeftEdge(o) ==
    CASE o.textAlign = "left" -> o.x
      [] o.textAlign = "right" -> JsSub(o.x, LineWidth(o))
      [] OTHER -> JsSub(o.x, JsDiv(LineWidth(o), Num(2)))

RightEdge(o) ==
    CASE o.textAlign = "left" -> JsAdd(o.x, LineWidth(o))
      [] o.textAlign = "right" -> o.x
      [] OTHER -> JsAdd(o.x, JsDiv(LineWidth(o), Num(2)))

InnerSlots == {"innerLeft", "center", "innerRight"}

WithinCanvas(o) ==
    ~JsLt(LeftEdge(o), Num(0)) /\ ~JsGt(RightEdge(o), chart.width)

FitsSpace(o, inside, outside) ==
    CASE o.slot = "center" -> TRUE
      [] o.slot \in {"innerLeft", "innerRight"} -> JsLe(LineWidth(o), inside)
      [] OTHER -> JsLe(LineWidth(o), outside)

FitsItsSpace(p, o) == FitsSpace(o, SpaceInside(p), OutsideSpace(p))

\* the fitting lines of bar p lie in the canvas, on their side of the bar,
\* and those of different slots are pairwise disjoint
FittingLinesAreApart(p) ==
    LET inside == SpaceInside(p)
        outside == OutsideSpace(p)
        barLeft == BarLeft(p)
        barRight == BarRight(p)
        fitting == {k \in TextOps(p) : FitsSpace(ops[k], inside, outside)}
        extent == [k \in fitting |->
                      [slot |-> ops[k].slot, left |-> LeftEdge(ops[k]),
                       right |-> RightEdge(ops[k])]]
    IN  /\ \A k \in fitting :
               /\ JsGe(extent[k].left, Num(0))
               /\ JsLe(extent[k].right, chart.width)
               /\ extent[k].slot \in InnerSlots =>
                      /\ JsGe(extent[k].left, barLeft)
                      /\ JsLe(extent[k].right, barRight)
               /\ extent[k].slot = "outerLeft" =>
                      JsLe(extent[k].right, barLeft)
               /\ extent[k].slot = "outerRight" =>
                      JsGe(extent[k].left, barRight)
        /\ \A k, l \in fitting :
               (k < l /\ extent[k].slot # extent[l].slot) =>
                   \/ JsLe(extent[k].right, extent[l].left)
                   \/ JsLe(extent[l].right, extent[k].left)

C9_StepNamePlacedByWrapRule ==
    pc = "done" =>
        \A p \in DrawnSteps :
            ~CountLabelTooWide(p) =>
                /\ TextAt(p, "center") = <<CountLabel(p)>>
                /\ NamePlacedByWrapRule(p, InsideSpace(p))

\* the name is written outer-left by rule (b) alone: its inside wrapping
\* has no hard overflow but three lines
C9_Witness ==
    \E p \in DrawnSteps :
        LET wrappedInside ==
                wrapTextToWidth(data[p].name, nonCenterFontSize, InsideSpace(p))
        IN  /\ ~CountLabelTooWide(p)
            /\ ~wrappedInside.hasHorizontalOverflow
            /\ Len(wrappedInside.lines) = 3
            /\ Len(TextAt(p, "outerLeft")) = 1

\* C10 as stated: when the count label fits in the bar, the stats block is
\* placed by the wrap-based rule of the step name: inner-right unless its
\* inside wrapping has hard overflow while the outside one has none, or its
\* inside wrapping has more than 2 lines and the outside one fewer (stated
\* for the bars of finite width, where every comparison is meaningful).
C10_StatsPlacedByWrapRule ==
    pc = "done" =>
        \A p \in DrawnSteps :
            (~CountLabelTooWide(p) /\ IsFinite(BarWidth(p))) =>
                ((TextAt(p, "outerRight") # <<>>) <=>
                    WrapRuleSaysOutside(Join(RightLines(p), <<SP>>),
                                        InsideSpace(p), OutsideSpace(p)))

\* C10 amended: when the count label fits in the bar, the stats are not
\* wrapped; they are written once, line by line or joined, inner-right when
\* the width of what is written is less than insideSpace or insideSpace is
\* at least outsideSpace, and outer-right otherwise.
C10_StatsPlacedByWidth ==
    pc = "done" =>
        \A p \in DrawnSteps :
            ~CountLabelTooWide(p) =>
                /\ WrittenOnceOnTheRight(p, StatsLines(p))
                /\ StatsPlacedByWidth(p, InsideSpace(p))

\* stats written outer-right although every word of them fits the inside
\* space, next to a centred count label
C10_Witness ==
    /\ validateData(data) = null
    /\ \E p \in DrawnSteps :
           /\ ~CountLabelTooWide(p)
           /\ IsFinite(BarWidth(p))
           /\ TextAt(p, "outerRight") = StatsLines(p)
           /\ ~wrapTextToWidth(Join(StatsLines(p), <<SP>>), nonCenterFontSize,
                               InsideSpace(p)).hasHorizontalOverflow

(***************************************************************************)
(* Single-line and multi-line stats.                                       *)
(***************************************************************************)
HeightOfBar == JsMul(verticalBarSpacing(chart.height, Len(data)), Frac(3, 4))

\* the block writeStats is given for bar p
StatsBlock(p) ==
    IF CountLabelTooWide(p) THEN MergedLines(p) ELSE StatsLines(p)

\* the space of the side on which the stats of bar p are written
SpaceOfStatsSide(p) ==
    IF TextAt(p, "innerRight") # <<>> THEN SpaceInside(p) ELSE OutsideSpace(p)

\* C11: the stats are written as one line joined with " / " exactly when the
\* height of the multi-line block plus 2 * textPadding exceeds the bar height
\* and the width of the joined line is at most the space of the side (inside
\* or outside) on which the stats are written; otherwise one value per line.
C11_SingleLineIffTooTallAndFits ==
    pc = "done" =>
        \A p \in DrawnSteps :
            LET block == StatsBlock(p)
                joined == Join(block, <<SP, "/", SP>>)
                tooTall ==
                    JsGt(Num(measureHeightOfLines(Len(block),
                                                  nonCenterFontSize)
                             + 2 * textPadding),
                         HeightOfBar)
                fits ==
                    JsLe(measureTextWidth(joined, nonCenterFontSize),
                         SpaceOfStatsSide(p))
            IN  RightLines(p) = IF tooTall /\ fits THEN <<joined>> ELSE block

\* one bar has its two stats joined into one line, another bar that is too
\* low as well keeps one value per line because the joined line is too wide
C11_Witness ==
    /\ pc = "done"
    /\ \E p \in DrawnSteps :
           /\ Len(StatsBlock(p)) >= 2
           /\ RightLines(p) = <<Join(StatsBlock(p), <<SP, "/", SP>>)>>
    /\ \E p \in DrawnSteps :
           /\ Len(StatsBlock(p)) >= 2
           /\ RightLines(p) = StatsBlock(p)
           /\ JsGt(Num(measureHeightOfLines(Len(StatsBlock(p)),
                                            nonCenterFontSize)
                       + 2 * textPadding),
                   HeightOfBar)

(***************************************************************************)
(* The vertical extent of the bars, in the arithmetic of the code.         *)
(***************************************************************************)
CanvasHeight == DyadicOfNat(chart.height.n)

\* index * verticalBarSpacing + barHeight
BottomEdge(o) == DoubleAdd(o.y, o.height)

\* height * (1 + 2^-51) and height * (1 - 2^-51): the canvas height with
\* the rounding errors of one division, one multiplication and one addition
HeightPlusRounding ==
    Dyadic(BitsAdd(Aligned(CanvasHeight, 0 - 51), CanvasHeight.m), 0 - 51)

\* x <= height * (1 + 2^-51)
AtMostHeightWithRounding(x) == DyadicLe(x, HeightPlusRounding)

\* x >= height * (1 - 2^-51), written x + height * 2^-51 >= height
AtLeastHeightWithRounding(x) ==
    DyadicLe(CanvasHeight,
             DyadicAdd(x, Dyadic(CanvasHeight.m, 0 - 51)))

\* C12 as stated: the bottom edge of every drawn bar, index *
\* verticalBarSpacing + barHeight, is at most the canvas height, and the top
\* edge of every bar is at least 0.
C12_BarsWithinCanvasHeight ==
    \A k \in 1..Len(ops) :
        /\ DyadicLe(DyadicOfNat(0), ops[k].y)
        /\ DyadicLe(BottomEdge(ops[k]), CanvasHeight)

\* C12 amended: the top edge of every bar is at least 0 and the bottom edge
\* of every drawn bar, as the code computes it in double arithmetic, is at
\* most the canvas height times (1 + 2^-51): the layout fills the height
\* exactly and the rounding of the quotient, the product and the sum can
\* carry the last bar past the canvas height by a unit in the last place.
C12_BarsWithinCanvasHeightUpToRounding ==
    \A k \in 1..Len(ops) :
        /\ DyadicLe(DyadicOfNat(0), ops[k].y)
        /\ AtMostHeightWithRounding(BottomEdge(ops[k]))

\* the pass has returned and the last bar of a chart with a bar above it
\* ends below the canvas height (height 29, two points)
C12_Witness ==
    /\ pc = "laidOut"
    /\ Len(ops) >= 2
    /\ ~DyadicLe(BottomEdge(ops[Len(ops)]), CanvasHeight)
    /\ AtMostHeightWithRounding(BottomEdge(ops[Len(ops)]))

\* the rectangles of the last position of the data
LastBars == {k \in 1..Len(ops) : ops[k].index = Len(data) - 1}

\* C13 as stated: the bottom edge of the last bar is strictly above the
\* bottom edge of the canvas: (pointCount - 1) * verticalSpacing + barHeight
\* < canvasHeight.
C13_LastBarLeavesBottomMargin ==
    \A k \in LastBars : ~DyadicLe(CanvasHeight, BottomEdge(ops[k]))

\* C13 amended: no bottom margin remains.  The bottom edge of the last bar,
\* (pointCount - 1) * verticalSpacing + barHeight, is the canvas height up
\* to the rounding of the double arithmetic: it lies between canvasHeight *
\* (1 - 2^-51) and canvasHeight * (1 + 2^-51), since (pointCount - 1/4)
\* spacings are exactly the canvas height.
C13_LastBarEndsAtCanvasBottom ==
    \A k \in LastBars :
        /\ AtLeastHeightWithRounding(BottomEdge(ops[k]))
        /\ AtMostHeightWithRounding(BottomEdge(ops[k]))

\* the pass has returned and the last of several bars ends exactly at the
\* canvas height
C13_Witness ==
    /\ pc = "laidOut"
    /\ Len(ops) >= 2
    /\ LastBars # {}
    /\ \A k \in LastBars : DyadicEq(BottomEdge(ops[k]), CanvasHeight)

(***************************************************************************)
(* Blanks and the order of the canvas operations.                          *)
(***************************************************************************)
\* the fillRect operations of position p
RectsAt(p) ==
    {k \in 1..Len(ops) : ops[k].op = "fillRect" /\ ops[k].index = p - 1}

\* the forEach callback is about to run for a blank
AtBlank ==
    pc = "draw" /\ index < Len(annotated) /\ IsBlank(annotated[index + 1])

\* C14: a blank causes no operation on the canvas, yet it occupies its
\* vertical slot: no operation belongs to the position of a blank, the
\* callback of a blank leaves the canvas log as it is, and the bar of the
\* step at position j (blanks before it counted) has y = j *
\* verticalBarSpacing.
C14_BlankDrawsNothingButTakesItsSlot ==
    /\ [](/\ \A k \in 1..Len(ops) : ~IsBlank(data[ops[k].index + 1])
          /\ \A p \in DrawnSteps :
                \A k \in RectsAt(p) :
                    ops[k].y =
                        JsMul(Num(p - 1),
                              verticalBarSpacing(chart.height, Len(data))))
    /\ [][AtBlank => (ops' = ops /\ index' = index + 1)]_vars

\* a bar drawn below two blanks, two slots down
C14_Witness ==
    /\ pc = "done"
    /\ Len(data) = 3
    /\ IsBlank(data[1])
    /\ IsBlank(data[2])
    /\ \E k \in RectsAt(3) :
           ops[k].y = JsMul(Num(2), verticalBarSpacing(chart.height, 3))
    /\ \A k \in 1..Len(ops) : ops[k].index = 2

\* C15: every step contributes exactly one fillRect, which precedes every
\* fillText of the step, and the operations of a step precede those of
\* every later step: the log is ordered by position and the first operation
\* of each position, and only that one, is its fillRect.
C15_RectFirstAndBarsInOrder ==
    /\ \A p \in DrawnSteps : Cardinality(RectsAt(p)) = 1
    /\ \A k \in 1..Len(ops) :
           /\ k > 1 => ops[k - 1].index <= ops[k].index
           /\ (ops[k].op = "fillRect") <=>
                  (k = 1 \/ ops[k - 1].index < ops[k].index)

\* three bars drawn, each with its rectangle and several texts
C15_Witness ==
    /\ pc = "done"
    /\ Cardinality(DrawnSteps) = 3
    /\ \A p \in DrawnSteps : Cardinality(TextOps(p)) >= 3

(***************************************************************************)
(* The state of the canvas at its operations.                              *)
(***************************************************************************)
\* the positions a measurement decides: that of the count label for the
\* fit test, the left ones for a wrapping, the right ones for the stats
SlotsDecidedBy(slot) ==
    IF slot = "center" THEN {"center"}
    ELSE IF slot = "stepName" THEN {"innerLeft", "outerLeft"}
    ELSE {"innerRight", "outerRight"}

\* C16: every measureText happens while the font of the canvas is the
\* fixed bold family at the size at which the measured text is drawn in
\* the slot being decided: 16px for the fit test of the count label, 14px
\* for the wrapping of the step name and for the stats, and every fillText
\* at the positions a measurement decides has the font of the measurement.
C16_MeasuredInTheFontDrawn ==
    \A k \in 1..Len(ops) :
        ops[k].op = "measureText" =>
            /\ ops[k].font =
                   Font("bold",
                        IF ops[k].slot = "center" THEN 16 ELSE 14,
                        "Helvetica, Arial, sans-serif")
            /\ \A j \in 1..Len(ops) :
                   (ops[j].op = "fillText" /\
                    ops[j].slot \in SlotsDecidedBy(ops[k].slot)) =>
                       ops[j].font = ops[k].font

\* the count label is measured at 16px right after a text was drawn at
\* 14px, and drawn at 16px later
C16_Witness ==
    \E j, k, l \in 1..Len(ops) :
        /\ j < k /\ k < l
        /\ ops[j].op = "fillText" /\ ops[j].font.size = 14
        /\ ops[k].op = "measureText" /\ ops[k].slot = "center"
        /\ ops[k].font.size = 16
        /\ ops[l].op = "fillText" /\ ops[l].slot = "center"
        /\ ops[l].font = ops[k].font

\* C17: at every fillText the fill colour of the canvas is white at the
\* center, inner-left and inner-right positions and black at the
\* outer-left and outer-right positions; the gradient colour set for a
\* fillRect is never the colour in effect for a text.
C17_TextWhiteInsideBlackOutside ==
    \A k \in 1..Len(ops) :
        ops[k].op = "fillText" =>
            /\ ops[k].slot \in {"center", "innerLeft", "innerRight"} =>
                   ops[k].fillStyle = white
            /\ ops[k].slot \in {"outerLeft", "outerRight"} =>
                   ops[k].fillStyle = black
            /\ ops[k].fillStyle.name # "gradient"

\* a bar is filled with a gradient colour, then a text is drawn inside in
\* white and a text outside in black
C17_Witness ==
    \E j, k, l \in 1..Len(ops) :
        /\ j < k /\ j < l
        /\ ops[j].op = "fillRect" /\ ops[j].fillStyle.name = "gradient"
        /\ ops[k].op = "fillText" /\ ops[k].slot = "innerLeft"
        /\ ops[k].fillStyle = white
        /\ ops[l].op = "fillText" /\ ops[l].slot = "outerRight"
        /\ ops[l].fillStyle = black

(***************************************************************************)
(* Properties of validateData, parseData and the onChange handler.         *)
(***************************************************************************)
IsNegativeAt(i) == JsLt(data[i].count, Num(0))

\* the step at position i has a greater count than the nearest step before
IsGreaterAt(i) ==
    \E j \in 1..Len(data) :
        IsPrecedingStep(data, j, i) /\ JsGt(data[i].count, data[j].count)

BadSteps ==
    {i \in StepIndices(data) : IsNegativeAt(i) \/ IsGreaterAt(i)}

FirstBadStep == CHOOSE i \in BadSteps : \A j \in BadSteps : i <= j

\* C18: validateData returns null exactly when every step count is
\* non-negative and none exceeds the count of the nearest preceding step,
\* blanks skipped; otherwise its error names the smallest index at which a
\* step is negative or greater than its preceding step, as negative when
\* the count is negative.
C18_ValidateReportsFirstBadStep ==
    pc = "validated" =>
        /\ (result = null) <=> (BadSteps = {})
        /\ BadSteps # {} =>
               result =
                   [error |->
                        "step count at index " \o
                        ToString(FirstBadStep - 1) \o
                        (IF IsNegativeAt(FirstBadStep) THEN " is negative"
                         ELSE " is greater than the previous step count")]

\* a step exceeds the step before the blank between them
C18_Witness ==
    /\ pc = "validated"
    /\ Len(data) = 3
    /\ ~IsBlank(data[1])
    /\ IsBlank(data[2])
    /\ result =
           [error |->
                "step count at index 2 is greater than the previous step count"]

\* the string "blank", or an object with a string name and a number count
IsGoodElement(value) ==
    \/ value = BlankString
    \/ /\ value.type = "object"
       /\ "name" \in DOMAIN value.props
       /\ value.props.name.type = "string"
       /\ "count" \in DOMAIN value.props
       /\ value.props.count.type = "number"

\* the first check an element fails, in the order null, not an object,
\* name missing, name not a string, count missing, count not a number
\* (an array is an object without properties)
FirstFailingCheck(value) ==
    IF value.type = "null" THEN "null"
    ELSE IF value.type \in {"boolean", "number", "string"}
    THEN "not \"blank\" or an object"
    ELSE IF value.type = "array" \/ "name" \notin DOMAIN value.props
    THEN "step name missing"
    ELSE IF value.props.name.type # "string" THEN "step name not a string"
    ELSE IF "count" \notin DOMAIN value.props THEN "step count missing"
    ELSE "step count not a number"

\* the positions of the elements of the array typed that fail a check
FailingElements ==
    {k \in 1..Len(rawJson.value.items) :
         ~IsGoodElement(rawJson.value.items[k])}

FirstFailingElement ==
    CHOOSE k \in FailingElements : \A j \in FailingElements : k <= j

\* C19: parseData returns { data } exactly when the text is the JSON of an
\* array whose every element is the string "blank" or a non-null object
\* with a string name and a number count, and data has these elements;
\* otherwise it returns one error: that of the first failing check of the
\* element at the smallest failing index when the text is an array, and
\* "invalid JSON" or "not an array" when it is none.
C19_ParseAcceptsOrReportsFirstFailure ==
    pc = "parsed" =>
        IF ~rawJson.isJson THEN result = [error |-> "invalid JSON"]
        ELSE IF rawJson.value.type # "array"
        THEN result = [error |-> "not an array"]
        ELSE IF FailingElements # {}
        THEN result =
                 [error |->
                      FirstFailingCheck(
                          rawJson.value.items[FirstFailingElement]) \o
                      " at index " \o ToString(FirstFailingElement - 1)]
        ELSE /\ DOMAIN result = {"data"}
             /\ Len(result.data) = Len(rawJson.value.items)
             /\ \A k \in 1..Len(result.data) :
                    LET value == rawJson.value.items[k]
                    IN  IF value = BlankString THEN IsBlank(result.data[k])
                        ELSE /\ ~IsBlank(result.data[k])
                             /\ result.data[k].name = value.props.name.value
                             /\ result.data[k].count =
                                    value.props.count.value

\* two elements fail after a blank and the error is that of the first
C19_Witness ==
    /\ pc = "parsed"
    /\ rawJson.isJson
    /\ rawJson.value.type = "array"
    /\ Len(rawJson.value.items) = 3
    /\ rawJson.value.items[1] = BlankString
    /\ rawJson.value.items[2] = JsonObject([name |-> JsonString(Name1)])
    /\ rawJson.value.items[3] = JsonNull
    /\ result = [error |-> "step count missing at index 1"]

\* parseData accepts the sequence and validateData returns null for it
IsAcceptedData(points) ==
    /\ ~HasError(parseData(rawJsonOf(points)))
    /\ validateData(points) = null

\* C20: the data App holds, and the sequence it passes to drawChart, are
\* always accepted by parseData and validateData; an edit that fails
\* parsing or validation sets the error message to that error and leaves
\* the data held unchanged, and only a valid edit hands its data to App and
\* clears the error.
C20_HeldDataIsAlwaysValid ==
    /\ [](/\ IsAcceptedData(funnelData)
          /\ data = annotateData(funnelData)
          /\ IsAcceptedData(data))
    /\ [][LET parsed == parseData(rawJson')
          IN  IF HasError(parsed)
              THEN /\ funnelData' = funnelData
                   /\ funnelDataError' = parsed.error
              ELSE IF validateData(parsed.data) # null
              THEN /\ funnelData' = funnelData
                   /\ funnelDataError' = validateData(parsed.data).error
              ELSE /\ funnelData' = parsed.data
                   /\ funnelDataError' = null]_vars

\* a valid edit replaced the data, then an edit that fails validation left
\* them in place and set its error
C20_Witness ==
    /\ funnelData = <<Step(Name1, Num(2)), Step(Name1, Num(1))>>
    /\ rawJson =
           JsonOf(JsonArray(<<JsonOfDataPoint(Step(Name1, Num(1))),
                              JsonOfDataPoint(Step(Name1, Num(2)))>>))
    /\ result =
           [error |->
                "step count at index 1 is greater than the previous step count"]

\* C22: drawChart called with an empty sequence runs to its return without
\* an error and emits no surface operation at all: no fill, no text and no
\* measurement (the callback that measures and draws is never invoked).
C22_EmptyInputDrawsNothing ==
    data = <<>> =>
        /\ ops = <<>>
        /\ annotated = <<>>
        /\ index = 0
        /\ pc \in {"start", "draw", "done"}
        /\ pc = "start" => ENABLED DrawStart
        /\ pc = "draw" => ENABLED DrawReturn

\* the pass over an empty sequence has returned
C22_Witness ==
    /\ data = <<>>
    /\ pc = "done"
    /\ ops = <<>>

\* the first step of the data has count 0
FirstCountIsZero == StepIndices(data) # {} /\ TopCount = Num(0)

NaNAbsolute ==
    <<"N", "a", "N", "%", SP, "a", "b", "s", "o", "l", "u", "t", "e">>

NaNRelative ==
    <<"N", "a", "N", "%", SP, "r", "e", "l", "a", "t", "i", "v", "e">>

\* the percentage labels of a step whose proportions are 0 / 0
NaNLabels(p) ==
    IF IsFirstStep(data, p) THEN <<NaNAbsolute>>
    ELSE <<NaNAbsolute, NaNRelative>>

\* C23: when the first step has count 0, annotateData and drawChart still
\* run to their return over every point (the callback or the return is
\* enabled until the pass is done, and it ends with every point visited), the
\* proportions annotateData stores are the results of the divisions by 0,
\* and the percentage labels written for a step are those results printed
\* ("NaN% absolute", "NaN% relative"): not hidden, replaced or clamped.
C23_ZeroFirstCountCompletesAndShowsNaN ==
    FirstCountIsZero =>
        /\ pc \in {"start", "draw", "done"}
        /\ pc = "start" => ENABLED DrawStart
        /\ pc = "draw" => index <= Len(annotated)
        /\ pc = "done" => index = Len(data)
        /\ pc # "start" =>
                /\ Len(annotated) = Len(data)
                /\ \A p \in StepIndices(data) :
                        /\ annotated[p].absoluteProportion =
                               JsDiv(data[p].count, Num(0))
                        /\ ~IsFirstStep(data, p) =>
                               ~IsFinite(annotated[p].relativeProportion)
        /\ \A p \in DrawnSteps :
                /\ RectsAt(p) # {}
                /\ TextAt(p, "center") = <<CountLabel(p)>>
                /\ RightLines(p) = NaNLabels(p)

\* a pass over three points, the first step with count 0 after a blank, has
\* returned with "NaN% absolute" written for the first step
C23_Witness ==
    /\ pc = "done"
    /\ Len(data) = 3
    /\ IsBlank(data[1])
    /\ FirstCountIsZero
    /\ RightLines(2) = <<NaNAbsolute>>
    /\ RightLines(3) = <<NaNAbsolute, NaNRelative>>

\* the strip of the canvas right of the rectangle o
RightPadding(o) == JsSub(chart.width, JsAdd(o.x, o.width))

SlotOps(p, slot) == {k \in TextOps(p) : ops[k].slot = slot}

\* every line of slot `left` ends at least betweenTextPadding before every
\* line of slot `right` begins
GapBetween(p, left, right) ==
    \A j \in SlotOps(p, left), k \in SlotOps(p, right) :
        JsGe(JsSub(LeftEdge(ops[k]), RightEdge(ops[j])),
             Num(betweenTextPadding))

\* the step name of bar p wrapped to the inside space has no word wider
\* than that space
NameWrapsInside(p) ==
    ~wrapTextToWidth(data[p].name, nonCenterFontSize,
                     InsideSpace(p)).hasHorizontalOverflow

\* the stats of bar p are narrower than the inside space
StatsNarrowerThanInside(p) ==
    JsLt(measureLinesWidth(TextAt(p, "innerRight"), nonCenterFontSize),
         InsideSpace(p))

LineTooWide(line) ==
    JsGt(measureTextWidth(line, nonCenterFontSize), wrapWidth)

\* the line is one of the words of the text
IsSingleWord(line) ==
    /\ \A i \in 1..Len(line) : line[i] # SP
    /\ \E i \in 1..Len(WordsOfWrapText) : WordsOfWrapText[i] = line

RECURSIVE ForEachOps(_, _, _)
ForEachOps(points, i, size) ==
    IF i > Len(points) THEN <<>>
    ELSE (IF IsBlank(points[i]) THEN <<>>
          ELSE drawBar(points[i], i - 1, Len(points), size)) \o
         ForEachOps(points, i + 1, size)

\* the operations of drawChart(ctx, points, size)
DrawChartOps(points, size) == ForEachOps(annotateData(points), 1, size)

\* the size of the chart the render path is compared on
RenderSize ==
    [width |-> Num(520), height |-> Num(100), gradientBase |-> Num(0)]

\* C29: annotateData is idempotent: applied to its own output it returns
\* that output, so drawChart called with annotated data (as App calls it)
\* emits the same bars and labels as drawChart called with the data.
C29_AnnotateIsIdempotent ==
    pc = "annotated" =>
        /\ annotateData(annotated) = annotated
        /\ DrawChartOps(annotated, RenderSize) =
               DrawChartOps(data, RenderSize)

\* annotateData has returned for a blank followed by two steps, and the
\* chart of its output has the two bars
C29_Witness ==
    /\ pc = "annotated"
    /\ Len(data) = 3
    /\ IsBlank(data[1])
    /\ ~IsBlank(data[2])
    /\ ~IsBlank(data[3])
    /\ data[2].count = Num(2)
    /\ data[3].count = Num(1)
    /\ annotated[3].relativeProportion = Frac(1, 2)
    /\ annotateData(annotated)[3].relativeProportion = Frac(1, 2)
    /\ Len(DrawChartOps(annotated, RenderSize)) > 2

\* C24: for every sequence validateData accepts, getTopOfFunnelCount
\* returns the count of the first step in sequence order, leading blanks
\* skipped, which is the value annotateData holds as firstStepCount; it
\* returns 0 when the sequence is empty or all blank.
C24_TopOfFunnelIsFirstStepCount ==
    (pc = "memoised" /\ validateData(data) = null) =>
        /\ \A i \in 1..Len(data) :
                IsFirstStep(data, i) =>
                    /\ topOfFunnelCount = data[i].count
                    /\ topOfFunnelCount = firstStepCount
        /\ StepIndices(data) = {} =>
                /\ topOfFunnelCount = Num(0)
                /\ firstStepCount = null

\* two blanks and then a step of count 2, and the count found is 2
C24_Witness ==
    /\ pc = "memoised"
    /\ validateData(data) = null
    /\ Len(data) = 3
    /\ IsBlank(data[1])
    /\ IsBlank(data[2])
    /\ ~IsBlank(data[3])
    /\ data[3].count = Num(2)
    /\ topOfFunnelCount = Num(2)
    /\ firstStepCount = Num(2)

\* the stats of the call joined into one line
JoinedStats == Join(statsCall.text, <<SP, "/", SP>>)

\* writeStats has written the stats in the single-line form
WroteSingleLine ==
    /\ pc = "written"
    /\ Len(ops) = 1
    /\ ops[1].text = JoinedStats

\* C27: whenever writeStats writes the stats as one joined line, the
\* width of that line is at most the space of the side it is drawn on: at
\* most spacing.inside when drawn inner-right and at most spacing.outside
\* when drawn outer-right, for all spaces that are numbers, negative ones
\* included.
C27_SingleLineFitsItsSide ==
    WroteSingleLine =>
        LET width == measureTextWidth(JoinedStats, nonCenterFontSize)
        IN  /\ ops[1].slot \in {"innerRight", "outerRight"}
            /\ ops[1].slot = "innerRight" =>
                   JsLe(width, statsCall.spacing.inside)
            /\ ops[1].slot = "outerRight" =>
                   JsLe(width, statsCall.spacing.outside)

\* the joined line is exactly as wide as the inside space, which is not
\* less than the negative outside space: it is drawn inner-right
C27_Witness ==
    /\ WroteSingleLine
    /\ statsCall.text = <<<<"a">>, <<"M">>>>
    /\ statsCall.spacing = [inside |-> Num(42), outside |-> Num(0 - 16)]
    /\ ops[1].slot = "innerRight"

\* what an operation of the canvas depends on: a measurement on the font
\* and the width it returns, a fillText on font, fill style, alignment and
\* baseline, a fillRect on the fill style
Observed(o) ==
    CASE o.op = "measureText" ->
            [op |-> o.op, slot |-> o.slot, text |-> o.text, font |-> o.font,
             width |-> measureText(o.text, o.font.size)]
      [] o.op = "fillText" ->
            [op |-> o.op, slot |-> o.slot, text |-> o.text, font |-> o.font,
             fillStyle |-> o.fillStyle, textAlign |-> o.textAlign,
             textBaseline |-> o.textBaseline]
      [] OTHER -> [op |-> o.op, slot |-> o.slot, fillStyle |-> o.fillStyle]

\* C30: the operations emitted on a canvas, and every measurement result,
\* do not depend on the font, fill colour, alignment or baseline the canvas
\* had at the start: a second canvas started in another state and given
\* the same calls emits the same operations with the same font, colour,
\* alignment and baseline in effect and measures the same widths.
C30_OperationsIgnoreTheInitialCanvas ==
    /\ Len(twin.ops) = Len(ops)
    /\ \A k \in 1..Len(ops) : Observed(twin.ops[k]) = Observed(ops[k])

\* a bar has been filled, a count label measured and stats written on a
\* fresh canvas and on one that started with another font, colour,
\* alignment and baseline
C30_Witness ==
    /\ pc = "canvas"
    /\ ctx # twin.start
    /\ twin.start.font # DefaultCanvas.font
    /\ twin.start.fillStyle # DefaultCanvas.fillStyle
    /\ twin.start.textAlign # DefaultCanvas.textAlign
    /\ twin.start.textBaseline # DefaultCanvas.textBaseline
    /\ Len(ops) >= 3
    /\ ops[1].op = "fillRect"
    /\ ops[2].op = "measureText"
    /\ \E k \in 1..Len(ops) : ops[k].op = "fillText"
    /\ twin.ops # <<>>

\* the limits of the three inputs
MinOf(name) == IF name = "gradientBase" THEN Num(0) ELSE Num(1)

ExceedsMax(name, value) ==
    name = "gradientBase" /\ ~JsLe(value, Frac(99, 100))

\* the text is a number within the limits of the input
IsValidEntry(name, text) ==
    /\ parseFloat(text) # NaN
    /\ JsGe(parseFloat(text), MinOf(name))
    /\ ~ExceedsMax(name, parseFloat(text))

\* C21: after any sequence of typing events in the three NumberInputs the
\* committed configuration has 0 <= gradientBase <= 0.99 (gradientBase is
\* never 1), width >= 1 and height >= 1; a typing event changes the text
\* of one input, and commits the number typed only when the text is a
\* number within [min, max]: any other entry leaves the committed
\* configuration as it was.
C21_CommittedConfigurationStaysInRange ==
    /\ [](/\ JsGe(chart.gradientBase, Num(0))
          /\ JsLe(chart.gradientBase, Frac(99, 100))
          /\ chart.gradientBase # Num(1)
          /\ JsGe(chart.width, Num(1))
          /\ JsGe(chart.height, Num(1)))
    /\ [][\E name \in {"width", "height", "gradientBase"} :
             /\ \A other \in {"width", "height", "gradientBase"} \ {name} :
                    /\ inputValue'[other] = inputValue[other]
                    /\ chart'[other] = chart[other]
             /\ IF IsValidEntry(name, inputValue'[name])
                THEN chart'[name] = parseFloat(inputValue'[name])
                ELSE chart'[name] = chart[name]]_vars

\* 0.5 was committed as gradient base, then "1" was typed there and is
\* displayed while 0.5 stays committed; "0" is displayed as width while
\* 1200 stays committed
C21_Witness ==
    /\ pc = "inputs"
    /\ inputValue.gradientBase = <<"1">>
    /\ chart.gradientBase = Frac(1, 2)
    /\ inputValue.width = <<"0">>
    /\ chart.width = Num(1200)

====
